---- MODULE Spec2Model ----
(***************************************************************************)
(* Model of github.com/posener/cmd (src/cmd.go, src/args.go): a tree of    *)
(* commands built by SubCommand / flag declarations / ArgsVar, and the     *)
(* recursive parse that walks it.                                          *)
(*                                                                         *)
(* Go strings are sequences of one-character strings (<<"-","h">> is       *)
(* "-h"), so that prefixes, the leading dash and decimal digits are what   *)
(* the code sees.  Error messages are sequences of string chunks whose     *)
(* concatenation is the Go message.  A Go slice is [e |-> elements,        *)
(* cap |-> capacity].                                                      *)
(***************************************************************************)
EXTENDS Integers, Sequences, FiniteSets, TLC

(* ------------------------------ bounds --------------------------------- *)
\* Largest number of command nodes (root included) that are created.
MaxNodes == 3
\* Largest number of tokens after the program name in a ParseArgs call.
MaxTokens == 3
\* Largest capacity an ArgsStr / ArgsInt is created with.
MaxCap == 1
\* Largest number of tokens in a direct call of Set.
MaxSetLen == 2
\* Largest number of bytes in a text written to a Formatter.
MaxText == 5
\* Largest number of bytes in a details text.
MaxDetails == 2

(* ------------------------------ strings -------------------------------- *)
S_cmd == <<"c", "m", "d">>
S_a == <<"a">>
S_b == <<"b">>
S_A == <<"A">>
S_x == <<"x">>
S_7 == <<"7">>
S_dashH == <<"-", "h">>
S_dashHelp == <<"-", "h", "e", "l", "p">>
S_ddashHelp == <<"-", "-", "h", "e", "l", "p">>
S_dashV == <<"-", "v">>
S_dashA == <<"-", "a">>
S_v == <<"v">>
S_f == <<"f">>
S_empty == <<>>

Digits == {"0", "1", "2", "3", "4", "5", "6", "7", "8", "9"}

DigitVal(ch) ==
    CASE ch = "0" -> 0 [] ch = "1" -> 1 [] ch = "2" -> 2 [] ch = "3" -> 3
      [] ch = "4" -> 4 [] ch = "5" -> 5 [] ch = "6" -> 6 [] ch = "7" -> 7
      [] ch = "8" -> 8 [] ch = "9" -> 9

DigitChar(d) ==
    CASE d = 0 -> "0" [] d = 1 -> "1" [] d = 2 -> "2" [] d = 3 -> "3"
      [] d = 4 -> "4" [] d = 5 -> "5" [] d = 6 -> "6" [] d = 7 -> "7"
      [] d = 8 -> "8" [] d = 9 -> "9"

\* s[i:] of Go, with i counted from 0.
Drop(s, i) == SubSeq(s, i + 1, Len(s))

\* s[:i] of Go.
Take(s, i) == SubSeq(s, 1, i)


\* strings.Join(list, sep) for a list of strings.
RECURSIVE Join(_, _)
Join(list, sep) ==
    IF list = <<>> THEN <<>>
    ELSE IF Len(list) = 1 THEN list[1]
    ELSE list[1] \o sep \o Join(Tail(list), sep)

\* fmt's %v of a []string: "[a b]".
FmtList(list) == <<"[">> \o Join(list, <<" ">>) \o <<"]">>

\* fmt's %d of a non-negative int.
RECURSIVE Itoa(_)
Itoa(n) == IF n < 10 THEN <<DigitChar(n)>> ELSE Itoa(n \div 10) \o <<DigitChar(n % 10)>>

(* ------------------------------ errors --------------------------------- *)
\* An error value: nil, or a message; is = errors.Is(err, flag.ErrHelp),
\* eq = (err == flag.ErrHelp).
NilErr == [nil |-> TRUE, msg |-> <<>>, is |-> FALSE, eq |-> FALSE]

\* flag.ErrHelp, the sentinel of the flag package.
ErrHelp == [nil |-> FALSE, msg |-> <<"flag: help requested">>, is |-> TRUE, eq |-> TRUE]

\* fmt.Errorf / errors.New without a wrapped error (%v of an inner error
\* copies its text only).
Errorf(msg) == [nil |-> FALSE, msg |-> msg, is |-> FALSE, eq |-> FALSE]

\* fmt.Errorf(prefix + "%w", inner): the chain keeps the inner error.
ErrorfW(prefix, inner) == [nil |-> FALSE, msg |-> prefix \o inner.msg, is |-> inner.is, eq |-> FALSE]

(* ------------------------------ slices --------------------------------- *)
\* A []string as the caller builds it: elements and spare capacity.
MkSlice(elems, spare) == [e |-> elems, cap |-> Len(elems) + spare]

\* s[i:].
SliceFrom(s, i) == [e |-> Drop(s.e, i), cap |-> s.cap - i]

\* The nil slice.
NilSlice == [e |-> <<>>, cap |-> 0]

(* --------------------------- strconv.Atoi ------------------------------ *)
RECURSIVE DecVal(_)
DecVal(ds) ==
    IF ds = <<>> THEN 0
    ELSE DecVal(Take(ds, Len(ds) - 1)) * 10 + DigitVal(ds[Len(ds)])

AtoiBody(s) == IF Len(s) > 0 /\ s[1] \in {"-", "+"} THEN Tail(s) ELSE s

AtoiSyntax(s) ==
    /\ Len(AtoiBody(s)) > 0
    /\ \A i \in 1..Len(AtoiBody(s)) : AtoiBody(s)[i] \in Digits

AtoiVal(s) ==
    IF Len(s) > 0 /\ s[1] = "-" THEN 0 - DecVal(AtoiBody(s)) ELSE DecVal(AtoiBody(s))

\* ds without its leading zeros.
RECURSIVE StripZeros(_)
StripZeros(ds) == IF ds # <<>> /\ ds[1] = "0" THEN StripZeros(Tail(ds)) ELSE ds

\* The digits of 2^63 - 1 and of 2^63, the largest magnitudes of a 64-bit int.
MaxInt64Digits ==
    <<"9", "2", "2", "3", "3", "7", "2", "0", "3", "6", "8", "5", "4", "7", "7", "5", "8", "0", "7">>
MinInt64Digits ==
    <<"9", "2", "2", "3", "3", "7", "2", "0", "3", "6", "8", "5", "4", "7", "7", "5", "8", "0", "8">>

\* x <= y for two digit strings of the same length.
RECURSIVE DigitsLE(_, _)
DigitsLE(x, y) ==
    IF x = <<>> THEN TRUE
    ELSE IF x[1] # y[1] THEN DigitVal(x[1]) < DigitVal(y[1])
    ELSE DigitsLE(Tail(x), Tail(y))

\* The number s denotes fits a 64-bit int.
AtoiInRange(s) ==
    LET d == StripZeros(AtoiBody(s))
        lim == IF s[1] = "-" THEN MinInt64Digits ELSE MaxInt64Digits
    IN  Len(d) < Len(lim) \/ (Len(d) = Len(lim) /\ DigitsLE(d, lim))

\* strconv.Atoi: ok is FALSE for a syntax or a range error (64-bit int).
Atoi(s) ==
    IF AtoiSyntax(s) /\ AtoiInRange(s)
    THEN [ok |-> TRUE, v |-> AtoiVal(s)]
    ELSE [ok |-> FALSE, v |-> 0]

(* --------------------------- args.go ----------------------------------- *)
\* A positional value: kind "ArgsStr" or "ArgsInt", the slice it holds.
MkArgs(kind, cap) == [kind |-> kind, e |-> <<>>, cap |-> cap]

\* "required %d positional args, got %v"
ErrRequired(cap, args) ==
    Errorf(<<"required ">> \o Itoa(cap) \o <<" positional args, got ">> \o FmtList(args.e))

\* (*ArgsStr).Set: the value becomes the argument slice itself.
ArgsStrSet(a, args) ==
    IF a.cap > 0 /\ Len(args.e) # a.cap
    THEN [a |-> a, err |-> ErrRequired(a.cap, args)]
    ELSE [a |-> [a EXCEPT !.e = args.e, !.cap = args.cap], err |-> NilErr]

\* Capacity after append(s, v) to a slice of 8-byte elements.
AppendCap(len, cap) == IF len + 1 <= cap THEN cap ELSE IF cap = 0 THEN 1 ELSE 2 * cap

\* ErrInvalidInt with the position counted from 1.
ErrInvalidInt_FromOne(i, arg) ==
    Errorf(<<"invalid int positional argument at position ">> \o Itoa(i + 1)
           \o <<" with value ">> \o arg)

\* "invalid int positional argument at position %d with value %v"
ErrInvalidInt(i, arg) ==
    Errorf(<<"invalid int positional argument at position ">> \o Itoa(i)
           \o <<" with value ">> \o arg)

\* The loop of (*ArgsInt).Set from index i (0-based) on.
RECURSIVE ArgsIntLoop(_, _, _)
ArgsIntLoop(a, args, i) ==
    IF i >= Len(args.e) THEN [a |-> a, err |-> NilErr]
    ELSE IF ~Atoi(args.e[i + 1]).ok
         THEN [a |-> a, err |-> ErrInvalidInt(i, args.e[i + 1])]
    ELSE ArgsIntLoop([a EXCEPT !.e = Append(a.e, Atoi(args.e[i + 1]).v),
                               !.cap = AppendCap(Len(a.e), a.cap)], args, i + 1)

\* (*ArgsInt).Set
ArgsIntSet(a, args) ==
    IF a.cap > 0 /\ Len(args.e) # a.cap
    THEN [a |-> a, err |-> ErrRequired(a.cap, args)]
    ELSE ArgsIntLoop([a EXCEPT !.e = <<>>], args, 0)

\* ArgsValue.Set, dispatched on the dynamic type.
ValueSet(a, args) == IF a.kind = "ArgsInt" THEN ArgsIntSet(a, args) ELSE ArgsStrSet(a, args)

(* ------------------------------ Formatter ------------------------------ *)
\* A Formatter{Indent: indent, Width: width}: the unexported fields are zero.
Formatter(indent, width) ==
    [Indent |-> indent, Width |-> width, curWidth |-> 0, lastSpace |-> 0,
     hasSpace |-> FALSE]

\* insert: buf with the bytes in put before index i (from 0), and the index
\* of the byte that was at i.
insert(buf, i, in) ==
    [i |-> i + Len(in), buf |-> SubSeq(buf, 1, i) \o in \o SubSeq(buf, i + 1, Len(buf))]

\* The outcome of insertIndent: the Formatter, the buffer, and whether an
\* index was out of range.
FmtResult(f, b, panic) == [f |-> f, b |-> b, panic |-> panic]

\* The loop of insertIndent from index i (from 0) on; i1, b1 and cw are the
\* index, the buffer and curWidth after the indentation step.
RECURSIVE insertIndentFrom(_, _, _)
insertIndentStep(f, i1, b1, cw) ==
    IF b1[i1 + 1] = "\n"
    THEN insertIndentFrom([f EXCEPT !.curWidth = 0, !.lastSpace = i1], b1, i1 + 1)
    ELSE IF b1[i1 + 1] \in {" ", "\t"}
    THEN insertIndentFrom([f EXCEPT !.curWidth = cw, !.lastSpace = i1, !.hasSpace = TRUE],
                          b1, i1 + 1)
    ELSE IF f.Width > 0 /\ cw > f.Width /\ f.hasSpace
    THEN IF f.lastSpace >= Len(b1)
         THEN FmtResult([f EXCEPT !.curWidth = cw], b1, TRUE)
         ELSE insertIndentFrom([f EXCEPT !.curWidth = cw, !.hasSpace = FALSE],
                               [b1 EXCEPT ![f.lastSpace + 1] = "\n"], f.lastSpace)
    ELSE insertIndentFrom([f EXCEPT !.curWidth = cw], b1, i1 + 1)

insertIndentFrom(f, b, i) ==
    IF i >= Len(b) THEN FmtResult(f, b, FALSE)
    ELSE IF Len(f.Indent) > 0 /\ f.curWidth = 0
    THEN insertIndentStep(f, insert(b, i, f.Indent).i, insert(b, i, f.Indent).buf,
                          Len(f.Indent))
    ELSE insertIndentStep(f, i, b, f.curWidth + 1)

\* (*Formatter).insertIndent
insertIndent(f, b) == insertIndentFrom(f, b, 0)

\* (*Formatter).validate panics.
validate(f) == Len(f.Indent) > 0 /\ f.Width > 0 /\ f.Width <= Len(f.Indent)

\* (*Formatter).Write: the Formatter after the call, the bytes handed to
\* f.Writer, and whether the call panicked.
FormatterWrite(f, b) ==
    IF validate(f) THEN FmtResult(f, <<>>, TRUE) ELSE insertIndent(f, b)

(* ------------------------------ state ---------------------------------- *)
VARIABLES
    cmds,       \* the SubCmd objects: node id -> fields (id 1 is the root)
    argsData,   \* the argsData objects: id -> [value, usage, details, predict], and
                \* history: sets, the calls of value.Set in the last call,
                \* and made, the capacity the value was created with
    flagValue,  \* the flag.Value objects: id -> current value (as a string)
    out,        \* what the last call wrote to the output sink
    ret,        \* the last call: operation, inputs, panic / returned error
    born,       \* history: node id -> the flag names its ancestors held when
                \* SubCommand created it
    formatter   \* the formatter.Formatter object under test: its fields

vars == <<cmds, argsData, flagValue, out, ret, born, formatter>>

Root == 1

\* The nodes that exist.
Nodes == DOMAIN cmds

\* len(c.sub) > 0
HasSub(cm, c) == DOMAIN cm[c].sub # {}

\* The parent of a node (0 for the root), read off the sub maps.
Parent(cm, c) ==
    IF \E p \in DOMAIN cm : \E nm \in DOMAIN cm[p].sub : cm[p].sub[nm] = c
    THEN CHOOSE p \in DOMAIN cm : \E nm \in DOMAIN cm[p].sub : cm[p].sub[nm] = c
    ELSE 0

\* The nodes from the root down to c, c included.
RECURSIVE PathTo(_, _)
PathTo(cm, c) == IF c = 0 THEN {} ELSE {c} \cup PathTo(cm, Parent(cm, c))

\* The proper ancestors of c.
Ancestors(cm, c) == PathTo(cm, c) \ {c}

\* The record of a call, as the caller observes it: the operation, the token
\* slice given to ParseArgs, whether it panicked, the error it returned and
\* whether it ended the process; for a call of the completer, the node it was
\* called on and what it returned.
Ret(op, tokens, panic, err) ==
    [op |-> op, tokens |-> tokens, panic |-> panic, err |-> err, exit |-> FALSE,
     status |-> 0, node |-> 0, result |-> <<>>]

\* An entry of the output sink: the usage of a node, or an error line.
OutUsage(c) == [k |-> "usage", c |-> c, msg |-> <<>>]
OutLine(c, msg) == [k |-> "line", c |-> c, msg |-> msg]

(* ------------------------------ New ------------------------------------ *)
\* newSubCmd: a node with a copy of the parent's flag definitions.
newSubCmd(name, errorHandling, formal, isRoot) ==
    [name |-> name, errorHandling |-> errorHandling, formal |-> formal,
     parsed |-> FALSE, sub |-> <<>>, args |-> 0, isRoot |-> isRoot,
     details |-> <<>>]

\* copyFlagSet giving each copied flag a value of its own.
copyFlagSet_FreshValues(formal) ==
    [nm \in DOMAIN formal |-> [formal[nm] EXCEPT !.value = <<0, nm>>]]

\* copyFlagSet: every flag of the parent, bound to the same flag.Value.
copyFlagSet(formal) == [nm \in DOMAIN formal |-> formal[nm]]

\* New(OptName("cmd"), OptErrorHandling(policy)).
InitWith(policy) ==
    /\ cmds = (Root :> newSubCmd(S_cmd, policy, <<>>, TRUE))
    /\ argsData = <<>>
    /\ flagValue = <<>>
    /\ out = <<>>
    /\ ret = Ret("New", NilSlice, FALSE, NilErr)
    /\ born = (Root :> {})
    /\ formatter = Formatter(<<>>, 0)

Init == InitWith("ContinueOnError")

(* ------------------------------ SubCommand ----------------------------- *)
\* The names SubCommand is called with.
SubNameInputs == {S_empty, S_dashA, S_a, S_b}

\* SubCommandPanic without the check for an existing child of that name.
SubCommandPanic_NoExists(cm, c, name) ==
    IF Len(name) = 0 THEN <<"subcommand can't be empty">>
    ELSE IF name[1] = "-" THEN <<"subcommand can't start with a dash">>
    ELSE <<>>

\* The panics of SubCommand (empty when the call goes through).
SubCommandPanic(cm, c, name) ==
    IF Len(name) = 0 THEN <<"subcommand can't be empty">>
    ELSE IF name[1] = "-" THEN <<"subcommand can't start with a dash">>
    ELSE IF name \in DOMAIN cm[c].sub THEN <<"sub command ">> \o name \o <<" already exists">>
    ELSE <<>>

\* The id of the next allocated node.
NewNode(cm) == Cardinality(DOMAIN cm) + 1

\* The tree after c.SubCommand(name, ...) went through.
SubCommandDo(cm, c, name) ==
    LET n == NewNode(cm)
        child == [newSubCmd(cm[c].name \o <<" ">> \o name, cm[c].errorHandling,
                            copyFlagSet(cm[c].formal), FALSE)
                  EXCEPT !.args = cm[c].args]
    IN  [x \in DOMAIN cm \cup {n} |->
            IF x = n THEN child
            ELSE IF x = c THEN [cm[c] EXCEPT !.sub = (name :> n) @@ cm[c].sub]
            ELSE cm[x]]

\* The flag names held by c and by its ancestors.
AncestorFlags(cm, c) == UNION {DOMAIN cm[a].formal : a \in PathTo(cm, c)}

SubCommand(c, name) ==
    /\ ~ret.exit
    /\ c \in Nodes
    /\ SubCommandPanic(cmds, c, name) # <<>> \/ NewNode(cmds) <= MaxNodes
    /\ IF SubCommandPanic(cmds, c, name) # <<>>
       THEN /\ ret' = Ret("SubCommand", NilSlice, TRUE, NilErr)
            /\ UNCHANGED <<cmds, born>>
       ELSE /\ cmds' = SubCommandDo(cmds, c, name)
            /\ born' = (NewNode(cmds) :> AncestorFlags(cmds, c)) @@ born
            /\ ret' = Ret("SubCommand", NilSlice, FALSE, NilErr)
    /\ out' = <<>>
    /\ UNCHANGED <<argsData, flagValue, formatter>>

(* ------------------------------ flags ---------------------------------- *)
\* The flag declarations made: name and type (c.String / c.Bool).
FlagInputs == {[name |-> S_f, bool |-> FALSE], [name |-> S_v, bool |-> TRUE]}

S_false == <<"f", "a", "l", "s", "e">>
S_true == <<"t", "r", "u", "e">>

\* One flag.Value per flag name, whichever node declares it.
NewValue_PerName(c, name) == <<Root, name>>

\* The id of the flag.Value that a declaration on node c creates.
NewValue(c, name) == <<c, name>>

\* (*flag.FlagSet).Var refuses a name the set already holds.
FlagRedefined(cm, c, name) == name \in DOMAIN cm[c].formal

\* c.String(name, "", usage) / c.Bool(name, false, usage): the methods the
\* embedded FlagSet promotes; they do not look at c.sub.
DeclareFlag(c, fl) ==
    /\ ~ret.exit
    /\ c \in Nodes
    /\ IF FlagRedefined(cmds, c, fl.name)
       THEN /\ ret' = Ret("Flag", NilSlice, TRUE, NilErr)
            /\ out' = <<OutLine(c, <<"flag redefined: ">> \o fl.name)>>
            /\ UNCHANGED <<cmds, flagValue>>
       ELSE /\ cmds' = [cmds EXCEPT ![c].formal =
                            (fl.name :> [value |-> NewValue(c, fl.name), bool |-> fl.bool]) @@ @]
            /\ flagValue' = (NewValue(c, fl.name) :> IF fl.bool THEN S_false ELSE S_empty)
                            @@ flagValue
            /\ ret' = Ret("Flag", NilSlice, FALSE, NilErr)
            /\ out' = <<>>
    /\ UNCHANGED <<argsData, born, formatter>>

(* ------------------------------ ArgsVar -------------------------------- *)
\* The values ArgsVar is called with: Args() passes a nil ArgsStr.
ArgsInputs == {MkArgs(k, n) : k \in {"ArgsStr", "ArgsInt"}, n \in 0..MaxCap}

S_argsDefault == <<"[args...]">>

\* ArgsVarPanic looking only for a binding the node declared itself, not for
\* one it got from its parent.
ArgsVarPanic_OwnOnly(cm, c) ==
    IF HasSub(cm, c) THEN <<"positional args must be defined before defining sub commands">>
    ELSE IF cm[c].args = c THEN <<"Args() or ArgsVar() called more than once.">>
    ELSE <<>>

\* ArgsVarPanic without the check for sub-commands.
ArgsVarPanic_NoSub(cm, c) ==
    IF cm[c].args # 0 THEN <<"Args() or ArgsVar() called more than once.">>
    ELSE <<>>

\* The panics of ArgsVar (empty when the call goes through).
ArgsVarPanic(cm, c) ==
    IF HasSub(cm, c) THEN <<"positional args must be defined before defining sub commands">>
    ELSE IF cm[c].args # 0 THEN <<"Args() or ArgsVar() called more than once.">>
    ELSE <<>>

\* predict.Options(options...): whether OptCheck was given, and the values of
\* OptValues in their order (empty without a predictor).
Predict(check, values) == [check |-> check, values |-> values]
NoPredict == Predict(FALSE, <<>>)

\* c.ArgsVar(value, usage, details, options...): the new argsData object gets
\* the id of the node that declares it.
ArgsVarFull(c, value, usage, details, predict) ==
    /\ ~ret.exit
    /\ c \in Nodes
    /\ IF ArgsVarPanic(cmds, c) # <<>>
       THEN /\ ret' = Ret("ArgsVar", NilSlice, TRUE, NilErr)
            /\ UNCHANGED <<cmds, argsData>>
       ELSE /\ cmds' = [cmds EXCEPT ![c].args = c]
            /\ argsData' = (c :> [value |-> value,
                                  usage |-> IF usage = <<>> THEN S_argsDefault ELSE usage,
                                  details |-> details, predict |-> predict,
                                  sets |-> 0, made |-> value.cap])
                           @@ argsData
            /\ ret' = Ret("ArgsVar", NilSlice, FALSE, NilErr)
    /\ out' = <<>>
    /\ UNCHANGED <<flagValue, born, formatter>>

\* c.ArgsVar(value, usage, "", options...)
ArgsVarWith(c, value, usage, predict) == ArgsVarFull(c, value, usage, <<>>, predict)

\* c.ArgsVar(value, usage, "") without options.
ArgsVar(c, value, usage) == ArgsVarWith(c, value, usage, NoPredict)

(* --------------------- flag.FlagSet.Parse ------------------------------ *)
\* The index (from 0) of the first '=' of name that is not its first
\* character, 0 when there is none.
EqIndex(name) ==
    IF \E i \in 2..Len(name) : name[i] = "="
    THEN (CHOOSE i \in 2..Len(name) : name[i] = "=" /\ \A j \in 2..(i - 1) : name[j] # "=") - 1
    ELSE 0

\* strconv.ParseBool
BoolTrue == {<<"1">>, <<"t">>, <<"T">>, S_true, <<"T", "R", "U", "E">>, <<"T", "r", "u", "e">>}
BoolFalse == {<<"0">>, <<"f">>, <<"F">>, S_false, <<"F", "A", "L", "S", "E">>, <<"F", "a", "l", "s", "e">>}

\* The outcome of one parseOne step.
POne(seen, err, fv, rest, o) == [seen |-> seen, err |-> err, fv |-> fv, rest |-> rest, out |-> o]

\* failf: the error is printed to the output, followed by the usage.
Failf(c, msg, fv, rest) == POne(FALSE, Errorf(msg), fv, rest, <<OutLine(c, msg), OutUsage(c)>>)

\* parseOne, from the lookup of the flag on: name is the flag's name, value
\* the text after '=' when hasValue, rest the tokens after the flag token.
parseFlag(c, formal, fv, rest, name, hasValue, value) ==
    IF name \notin DOMAIN formal
    THEN IF name = <<"h", "e", "l", "p">> \/ name = <<"h">>
         THEN POne(FALSE, ErrHelp, fv, rest, <<OutUsage(c)>>)
         ELSE Failf(c, <<"flag provided but not defined: -">> \o name, fv, rest)
    ELSE IF formal[name].bool
    THEN IF ~hasValue \/ value \in BoolTrue
         THEN POne(TRUE, NilErr, [fv EXCEPT ![formal[name].value] = S_true], rest, <<>>)
         ELSE IF value \in BoolFalse
              THEN POne(TRUE, NilErr, [fv EXCEPT ![formal[name].value] = S_false], rest, <<>>)
         ELSE Failf(c, <<"invalid boolean value ">> \o value \o <<" for -">> \o name, fv, rest)
    ELSE IF hasValue THEN POne(TRUE, NilErr, [fv EXCEPT ![formal[name].value] = value], rest, <<>>)
         ELSE IF Len(rest.e) > 0
              THEN POne(TRUE, NilErr, [fv EXCEPT ![formal[name].value] = rest.e[1]],
                        SliceFrom(rest, 1), <<>>)
         ELSE Failf(c, <<"flag needs an argument: -">> \o name, fv, rest)

\* parseOne, from the split at '=' on: name0 is the token without its dashes.
parseName(c, formal, fv, rest, name0, eq) ==
    IF eq > 0
    THEN parseFlag(c, formal, fv, rest, Take(name0, eq), TRUE, Drop(name0, eq + 1))
    ELSE parseFlag(c, formal, fv, rest, name0, FALSE, <<>>)

\* parseOne for a token s that starts with numMinuses dashes.
parseDashed(c, formal, fv, rest, s, numMinuses) ==
    IF numMinuses = 2 /\ Len(s) = 2 THEN POne(FALSE, NilErr, fv, SliceFrom(rest, 1), <<>>)
    ELSE IF Len(s) = numMinuses \/ s[numMinuses + 1] = "-" \/ s[numMinuses + 1] = "="
         THEN Failf(c, <<"bad flag syntax: ">> \o s, fv, rest)
    ELSE parseName(c, formal, fv, SliceFrom(rest, 1), Drop(s, numMinuses),
                   EqIndex(Drop(s, numMinuses)))

\* (*flag.FlagSet).parseOne on the flag set of node c: formal are its
\* flags, fv the flag values, rest the slice f.args.
parseOne(c, formal, fv, rest) ==
    IF Len(rest.e) = 0 THEN POne(FALSE, NilErr, fv, rest, <<>>)
    ELSE IF Len(rest.e[1]) < 2 \/ rest.e[1][1] # "-" THEN POne(FALSE, NilErr, fv, rest, <<>>)
    ELSE parseDashed(c, formal, fv, rest, rest.e[1], IF rest.e[1][2] = "-" THEN 2 ELSE 1)

\* The loop of (*flag.FlagSet).Parse (ContinueOnError: the error is returned);
\* o collects what the flag set wrote.
RECURSIVE FlagSetLoop(_, _, _)
FlagSetStep(c, formal, r) == IF r.seen THEN FlagSetLoop(c, formal, r) ELSE r
FlagSetLoop(c, formal, r) == FlagSetStep(c, formal, parseOne(c, formal, r.fv, r.rest))

\* (*flag.FlagSet).Parse(args) on node c.
FlagSetParse(c, formal, fv, args) == FlagSetLoop(c, formal, POne(TRUE, NilErr, fv, args, <<>>))

(* ------------------------------ parse ---------------------------------- *)
\* The mutable objects a parse works on.
St(cm, ad, fv, o) == [cmds |-> cm, argsData |-> ad, flagValue |-> fv, out |-> o]

\* What parse hands back: the objects, the remaining tokens, the error, and
\* whether it panicked instead of returning.
PRes(st, args, err, panic) == [st |-> st, args |-> args, err |-> err, panic |-> panic]

RECURSIVE checkFlagsTree(_, _, _)

\* checkFlagsTree that does not go down to the sub-commands.
checkFlagsTree_NodeOnly(cm, c, parent) == parent \subseteq DOMAIN cm[c].formal

\* checkFlagsTree: TRUE when it returns, FALSE when it panics.
checkFlagsTree(cm, c, parent) ==
    /\ parent \subseteq DOMAIN cm[c].formal
    /\ \A nm \in DOMAIN cm[c].sub : checkFlagsTree(cm, cm[c].sub[nm], DOMAIN cm[c].formal)

\* (*SubCmd).Usage writes the usage of c to the output.
Usage(st, c) == [st EXCEPT !.out = Append(@, OutUsage(c))]

\* The end of setArgs: the outcome r of value.Set is stored and returned.
setArgsDone(st, b, r) ==
    PRes([st EXCEPT !.argsData[b].value = r.a, !.argsData[b].sets = @ + 1], NilSlice, r.err, FALSE)

\* setArgs that hands the tokens back when the node has no binding.
setArgs_KeepsTokens(st, c, args) ==
    IF st.cmds[c].args = 0 THEN PRes(st, args, NilErr, FALSE)
    ELSE setArgsDone(st, st.cmds[c].args, ValueSet(st.argsData[st.cmds[c].args].value, args))

\* predict.Config.Check of the completion library: with the check on and
\* predicted values, a value that is none of them is refused.
Check(predict, arg) ==
    IF ~predict.check \/ predict.values = <<>> THEN NilErr
    ELSE IF \E i \in 1..Len(predict.values) : predict.values[i] = arg THEN NilErr
    ELSE Errorf(<<"not in allowed values: ">> \o Join(predict.values, <<",">>))

\* The index of the first token that Check refuses, 0 when it refuses none.
FirstRefused(predict, toks) ==
    IF \E i \in 1..Len(toks) : ~Check(predict, toks[i]).nil
    THEN CHOOSE i \in 1..Len(toks) :
            ~Check(predict, toks[i]).nil /\ \A j \in 1..(i - 1) : Check(predict, toks[j]).nil
    ELSE 0

\* setArgs on binding b once the tokens are checked: bad is FirstRefused.
setArgsChecked(st, b, args, bad) ==
    IF bad > 0
    THEN PRes(st, NilSlice,
              Errorf(<<"arg ", "\"">> \o args.e[bad] \o <<"\"", ": ">>
                     \o Check(st.argsData[b].predict, args.e[bad]).msg), FALSE)
    ELSE setArgsDone(st, b, ValueSet(st.argsData[b].value, args))

\* setArgs calling Set before any token is checked.
setArgs_SetFirst(st, c, args) ==
    IF st.cmds[c].args = 0
    THEN IF Len(args.e) > 0
         THEN PRes(st, NilSlice, Errorf(<<"positional args not expected, got ">> \o FmtList(args.e)), FALSE)
         ELSE PRes(st, args, NilErr, FALSE)
    ELSE setArgsChecked(setArgsDone(st, st.cmds[c].args,
                                    ValueSet(st.argsData[st.cmds[c].args].value, args)).st,
                        st.cmds[c].args, args,
                        FirstRefused(st.argsData[st.cmds[c].args].predict, args.e))

\* (*SubCmd).setArgs
setArgs(st, c, args) ==
    IF st.cmds[c].args = 0
    THEN IF Len(args.e) > 0
         THEN PRes(st, NilSlice, Errorf(<<"positional args not expected, got ">> \o FmtList(args.e)), FALSE)
         ELSE PRes(st, args, NilErr, FALSE)
    ELSE setArgsChecked(st, st.cmds[c].args, args,
                        FirstRefused(st.argsData[st.cmds[c].args].predict, args.e))

\* The end of parse: a is what setArgs returned.
parseArgsDone(c, a) ==
    IF ~a.err.nil
    THEN PRes(a.st, NilSlice,
              Errorf(a.st.cmds[c].name \o <<": bad positional args: ">> \o a.err.msg), FALSE)
    ELSE a

\* parse after c.FlagSet.Parse returned f; st has the flag set's effects.
parseFlagsDone(st, c, f) ==
    IF ~f.err.nil
    THEN PRes(st, NilSlice, ErrorfW(st.cmds[c].name \o <<": bad flags: ">>, f.err), FALSE)
    ELSE parseArgsDone(c, setArgs(st, c, f.rest))

\* The effects of c.FlagSet.Parse on the objects.
FlagSetEffects(st, c, f) ==
    [st EXCEPT !.cmds[c].parsed = TRUE, !.flagValue = f.fv, !.out = @ \o f.out]

\* parse with the outcome f of c.FlagSet.Parse.
parseOwnWith(st, c, f) == parseFlagsDone(FlagSetEffects(st, c, f), c, f)

\* The second half of (*SubCmd).parse: the node's own flags, then its
\* positional arguments.
parseOwn(st, c, args) ==
    parseOwnWith(st, c, FlagSetParse(c, st.cmds[c].formal, st.flagValue, args))

\* The help tokens, with any token after which the flag package would ask for
\* help ("--h") taken for one too.
HelpTokens_AnyForm == {S_dashH, S_dashHelp, S_ddashHelp, <<"-", "-", "h">>}

\* The tokens that parse takes for a help request where a sub-command name is
\* expected.
HelpTokens == {S_dashH, S_dashHelp, S_ddashHelp}

\* parseSubDone handing the error of the sub-command up as it is.
parseSubDone_NoWrap(c, r) ==
    IF r.panic THEN r
    ELSE IF ~r.err.nil THEN PRes(r.st, NilSlice, r.err, FALSE)
    ELSE parseOwn(r.st, c, r.args)

\* parse of c after the parse of its sub-command returned r.
parseSubDone(c, r) ==
    IF r.panic THEN r
    ELSE IF ~r.err.nil
         THEN PRes(r.st, NilSlice, Errorf(r.st.cmds[c].name \o <<" > ">> \o r.err.msg), FALSE)
    ELSE parseOwn(r.st, c, r.args)

RECURSIVE parse(_, _, _)

\* parseRest stepping over a flag-like token that stands where a node with
\* children expects a sub-command name.
parseRest_SkipsFlag(st, c, args) ==
    IF ~HasSub(st.cmds, c) THEN parseOwn(st, c, args)
    ELSE IF Len(args.e) = 0
         THEN PRes(Usage(st, c), NilSlice, Errorf(<<"must provide sub command">>), FALSE)
    ELSE IF args.e[1] \in DOMAIN st.cmds[c].sub
         THEN parseSubDone(c, parse(st, st.cmds[c].sub[args.e[1]], args))
    ELSE IF args.e[1] \in HelpTokens
         THEN PRes(Usage(st, c), NilSlice, ErrHelp, FALSE)
    ELSE IF Len(args.e[1]) > 1 /\ args.e[1][1] = "-" THEN parse(st, c, args)
    ELSE PRes(st, NilSlice, Errorf(<<"invalid command: ">> \o args.e[1]), FALSE)

\* (*SubCmd).parse from "args = args[1:]" on: args are the tokens after the
\* command name.
parseRest(st, c, args) ==
    IF ~HasSub(st.cmds, c) THEN parseOwn(st, c, args)
    ELSE IF Len(args.e) = 0
         THEN PRes(Usage(st, c), NilSlice, Errorf(<<"must provide sub command">>), FALSE)
    ELSE IF args.e[1] \in DOMAIN st.cmds[c].sub
         THEN parseSubDone(c, parse(st, st.cmds[c].sub[args.e[1]], args))
    ELSE IF args.e[1] \in HelpTokens
         THEN PRes(Usage(st, c), NilSlice, ErrHelp, FALSE)
    ELSE PRes(st, NilSlice, Errorf(<<"invalid command: ">> \o args.e[1]), FALSE)

\* (*SubCmd).parse: TRUE in panic when it panics instead of returning.
parse(st, c, args) ==
    IF Len(args.e) < 1 \/ ~checkFlagsTree(st.cmds, c, {})
    THEN PRes(st, NilSlice, NilErr, TRUE)
    ELSE parseRest(st, c, SliceFrom(args, 1))

(* ------------------------------ ParseArgs ------------------------------ *)
\* handleError ending the process with status 0 for a help request, as
\* flag.FlagSet.Parse does under ExitOnError.
handleError_HelpExitsZero(errorHandling, tokens, err) ==
    IF err.nil THEN Ret("ParseArgs", tokens, FALSE, NilErr)
    ELSE IF errorHandling = "ExitOnError"
         THEN [Ret("ParseArgs", tokens, FALSE, err)
               EXCEPT !.exit = TRUE, !.status = IF err.is THEN 0 ELSE 2]
    ELSE IF errorHandling = "PanicOnError"
         THEN Ret("ParseArgs", tokens, TRUE, err)
    ELSE Ret("ParseArgs", tokens, FALSE, err)

\* (*Cmd).handleError: what the caller of ParseArgs gets for err.
handleError(errorHandling, tokens, err) ==
    IF err.nil THEN Ret("ParseArgs", tokens, FALSE, NilErr)
    ELSE IF errorHandling = "ExitOnError"
         THEN [Ret("ParseArgs", tokens, FALSE, err) EXCEPT !.exit = TRUE, !.status = 2]
    ELSE IF errorHandling = "PanicOnError"
         THEN Ret("ParseArgs", tokens, TRUE, err)
    ELSE Ret("ParseArgs", tokens, FALSE, err)

\* The state after ParseArgs, r being what parse handed back.
ParseArgsDone(tokens, r) ==
    /\ cmds' = r.st.cmds
    /\ argsData' = r.st.argsData
    /\ flagValue' = r.st.flagValue
    /\ out' = r.st.out
    /\ ret' = IF r.panic THEN Ret("ParseArgs", tokens, TRUE, NilErr)
              ELSE handleError(cmds[Root].errorHandling, tokens, r.err)

\* The bindings at the start of a call: no Set has been called in it.
NoSets(ad) == [b \in DOMAIN ad |-> [ad[b] EXCEPT !.sets = 0]]

\* (*Cmd).ParseArgs(tokens...): no completion request is pending.
ParseArgs(tokens) ==
    /\ ~ret.exit
    /\ ParseArgsDone(tokens, parse(St(cmds, NoSets(argsData), flagValue, <<>>), Root, tokens))
    /\ UNCHANGED <<born, formatter>>

(* ------------------------------ inputs --------------------------------- *)
\* All sequences over S of length at most n.
SeqsUpTo(S, n) == UNION {[1..k -> S] : k \in 0..n}

\* The tokens a command line is made of.
Tokens == {S_a, S_b, S_x, S_dashV, S_dashH, S_ddashHelp}

\* The slices ParseArgs is called with: the program name and up to MaxTokens
\* tokens, without spare capacity (as os.Args); and the empty slice.
TokenLists ==
    {MkSlice(<<S_cmd>> \o l, 0) : l \in SeqsUpTo(Tokens, MaxTokens)} \cup {NilSlice}

\* The tree is still being declared: ParseArgs has not been called.
Fresh == ret.op # "ParseArgs"

(* ------------------------------ Spec ----------------------------------- *)
\* A tree is declared (valid names, a bool flag, string positionals) and then
\* parsed once.
Next ==
    \/ \E c \in Nodes, name \in {S_a, S_b} : Fresh /\ SubCommand(c, name)
    \/ \E c \in Nodes, fl \in {x \in FlagInputs : x.bool} : Fresh /\ DeclareFlag(c, fl)
    \/ \E c \in Nodes, n \in 0..MaxCap : Fresh /\ ArgsVar(c, MkArgs("ArgsStr", n), <<>>)
    \/ \E tokens \in TokenLists : Fresh /\ ParseArgs(tokens)

Spec == Init /\ [][Next]_vars

(* ------------------------------ SpecDecl ------------------------------- *)
\* The declaration of sub-commands and positional arguments, with every name
\* and value, by calls that panic included.
NextDecl ==
    \/ \E c \in Nodes, name \in SubNameInputs : SubCommand(c, name)
    \/ \E c \in Nodes, value \in ArgsInputs : ArgsVar(c, value, <<>>)

SpecDecl == Init /\ [][NextDecl]_vars

(* ------------------------------ SpecDispatch --------------------------- *)
S_ab == <<"a", "b">>
S_ddashH == <<"-", "-", "h">>

\* Tokens around the child names "a" and "ab": the names, a longer and a
\* shorter one, another case, a flag-like one, the help tokens and a near miss.
DispatchTokens == {S_a, S_ab, S_A, S_dashA, S_dashH, S_dashHelp, S_ddashHelp, S_ddashH}
DispatchLists == {MkSlice(<<S_cmd>> \o l, 0) : l \in SeqsUpTo(DispatchTokens, MaxTokens)}

\* A tree of sub-commands named "a" and "ab" is declared and then parsed once.
NextDispatch ==
    \/ \E c \in Nodes, name \in {S_a, S_ab} : Fresh /\ SubCommand(c, name)
    \/ \E tokens \in DispatchLists : Fresh /\ ParseArgs(tokens)

SpecDispatch == Init /\ [][NextDispatch]_vars

(* ------------------------------ SpecLeaf ------------------------------- *)
S_ddash == <<"-", "-">>

\* A sub-command name, a positional token, the flag -v and the terminator of
\* the flag segment.
LeafTokens == {S_a, S_x, S_dashV, S_ddash}
LeafLists == {MkSlice(<<S_cmd>> \o l, 0) : l \in SeqsUpTo(LeafTokens, MaxTokens)}

\* A tree of sub-commands with the bool flag v, declared on any node at any
\* time, is parsed once.
NextLeaf ==
    \/ \E c \in Nodes, name \in {S_a, S_b} : Fresh /\ SubCommand(c, name)
    \/ \E c \in Nodes, fl \in {x \in FlagInputs : x.bool} : Fresh /\ DeclareFlag(c, fl)
    \/ \E tokens \in LeafLists : Fresh /\ ParseArgs(tokens)

SpecLeaf == Init /\ [][NextLeaf]_vars

(* ------------------------------ SpecShape ------------------------------ *)
ShapeTokens == {S_a, S_x, S_dashV, S_ddash, S_dashH}
ShapeLists == {MkSlice(<<S_cmd>> \o l, 0) : l \in SeqsUpTo(ShapeTokens, MaxTokens)}

\* A chain of sub-commands "a" with the bool flag v and positional arguments
\* of any number, declared on any node at any time, is parsed once.
NextShape ==
    \/ \E c \in Nodes : Fresh /\ SubCommand(c, S_a)
    \/ \E c \in Nodes, fl \in {x \in FlagInputs : x.bool} : Fresh /\ DeclareFlag(c, fl)
    \/ \E c \in Nodes : Fresh /\ ArgsVar(c, MkArgs("ArgsStr", 0), <<>>)
    \/ \E tokens \in ShapeLists : Fresh /\ ParseArgs(tokens)

SpecShape == Init /\ [][NextShape]_vars

(* ------------------------------ SpecPolicy ----------------------------- *)
\* flag.ErrorHandling
Policies == {"ContinueOnError", "ExitOnError", "PanicOnError"}

\* New(OptErrorHandling(policy)) with any policy.
InitPolicy == \E policy \in Policies : InitWith(policy)

PolicyLists == {MkSlice(<<S_cmd>> \o l, 0) : l \in SeqsUpTo({S_a, S_x, S_dashH}, MaxTokens)}

\* A tree of sub-commands is declared under any policy and parsed once.
NextPolicy ==
    \/ \E c \in Nodes, name \in {S_a, S_b} : Fresh /\ SubCommand(c, name)
    \/ \E tokens \in PolicyLists : Fresh /\ ParseArgs(tokens)

SpecPolicy == InitPolicy /\ [][NextPolicy]_vars

(* ------------------------------ SpecCheck ------------------------------ *)
\* The options of a declaration: none, OptValues("a", "b"), and the same with
\* OptCheck.
PredictInputs == {NoPredict, Predict(FALSE, <<S_a, S_b>>), Predict(TRUE, <<S_a, S_b>>)}

CheckLists == {MkSlice(<<S_cmd>> \o l, 0) : l \in SeqsUpTo({S_a, S_b, S_x}, MaxTokens)}

\* The root declares string positional arguments with options and is parsed
\* any number of times.
NextCheck ==
    \/ \E predict \in PredictInputs : ArgsVarWith(Root, MkArgs("ArgsStr", 0), <<>>, predict)
    \/ \E tokens \in CheckLists : ParseArgs(tokens)

SpecCheck == Init /\ [][NextCheck]_vars

(* ------------------------------ Usage ---------------------------------- *)
\* The byte of a character of a sub-command name.
Ord(ch) ==
    CASE ch = "A" -> 65 [] ch = "a" -> 97 [] ch = "b" -> 98 [] ch = "c" -> 99
      [] ch = "f" -> 102 [] ch = "v" -> 118

\* x < y for Go strings (bytewise).
RECURSIVE StrLess(_, _)
StrLess(x, y) ==
    IF y = <<>> THEN FALSE
    ELSE IF x = <<>> THEN TRUE
    ELSE IF x[1] # y[1] THEN Ord(x[1]) < Ord(y[1])
    ELSE StrLess(Tail(x), Tail(y))

\* sort.Strings: the strings of the set S in increasing order.
RECURSIVE SortStrings(_)
SortStrings(S) ==
    IF S = {} THEN <<>>
    ELSE <<CHOOSE x \in S : \A y \in S \ {x} : StrLess(x, y)>>
         \o SortStrings(S \ {CHOOSE x \in S : \A y \in S \ {x} : StrLess(x, y)})

\* The orders in which a range over the map S can yield its keys.
MapOrders(S) == {f \in [1..Cardinality(S) -> S] : \A i, j \in 1..Cardinality(S) : f[i] = f[j] => i = j}

\* subNames left in the order the map yielded them.
subNames_Unsorted(names) == names

\* (*SubCmd).subNames: names are the keys as the range over c.sub yielded them.
subNames(names) == SortStrings({names[i] : i \in 1..Len(names)})

\* The first line of the usage of node c, subs being c.subNames().
UsageLine(cm, ad, c, subs) ==
    <<"Usage: ">> \o cm[c].name
    \o IF Len(subs) = 0
       THEN (IF DOMAIN cm[c].formal # {} THEN <<" [flags]">> ELSE <<>>)
            \o (IF cm[c].args # 0 THEN <<" ">> \o ad[cm[c].args].usage ELSE <<>>)
       ELSE IF Len(<<"[">> \o Join(subs, <<"|">>) \o <<"]">>) > 30
            THEN <<" ", "[subcommands...]">>
            ELSE <<" ">> \o <<"[">> \o Join(subs, <<"|">>) \o <<"]">>

\* name padded with spaces to width characters (%-*s).
Pad(name, width) == name \o [i \in 1..(width - Len(name)) |-> " "]

\* The length of the longest of the names.
SubLength(subs) ==
    IF subs = <<>> THEN 0
    ELSE CHOOSE n \in {Len(subs[i]) : i \in 1..Len(subs)} :
            \A i \in 1..Len(subs) : Len(subs[i]) <= n

\* The lines of the sub-command listing (synopses are empty).
SubLines(subs) ==
    [i \in 1..Len(subs) |-> <<" ", " ">> \o Pad(subs[i], SubLength(subs)) \o <<"\t", "\n">>]

\* flag.PrintDefaults for flags with empty usage and zero default: the flags
\* in the order of their names.
FlagLines(formal) ==
    [i \in 1..Cardinality(DOMAIN formal) |->
        <<" ", " ", "-">> \o SortStrings(DOMAIN formal)[i]
        \o IF formal[SortStrings(DOMAIN formal)[i]].bool THEN <<"\t", "\n">>
           ELSE <<" string", "\n    \t", "\n">>]

\* All sequences of the sequence of sequences ss, one after the other.
RECURSIVE Concat(_)
Concat(ss) == IF ss = <<>> THEN <<>> ELSE ss[1] \o Concat(Tail(ss))

\* fmt.Fprintf(w, format) without operands: "%%" is a percent sign, a verb
\* has no operand, a "%" at the end has no verb (a "%" is followed here by
\* one character or by nothing).
RECURSIVE Fprintf(_)
Fprintf(format) ==
    IF format = <<>> THEN <<>>
    ELSE IF format[1] # "%" THEN <<format[1]>> \o Fprintf(Tail(format))
    ELSE IF Len(format) = 1 THEN <<"%!(NOVERB)">>
    ELSE IF format[2] = "%" THEN <<"%">> \o Fprintf(Tail(Tail(format)))
    ELSE <<"%!", format[2], "(MISSING)">> \o Fprintf(Tail(Tail(format)))

\* detailsWriter(w)
detailsWriter == Formatter(<<" ", " ">>, 80)

\* fmt.Fprintf(detailsW, c.details): one Write of the formatted text to the
\* detailsW of the call.
DetailsWrite(cm, c) == FormatterWrite(detailsWriter, Fprintf(cm[c].details))

\* The node prints positional details: it has no children, it has a binding
\* and the binding's details are not empty.
HasArgsDetails(cm, ad, c) ==
    ~HasSub(cm, c) /\ cm[c].args # 0 /\ ad[cm[c].args].details # <<>>

\* fmt.Fprintf(detailsW, c.args.details): one Write to the same detailsW, as
\* the write of c.details left it.
PositionalWrite(cm, ad, c) ==
    FormatterWrite(IF cm[c].details = <<>> THEN detailsWriter ELSE DetailsWrite(cm, c).f,
                   Fprintf(ad[cm[c].args].details))

\* A write to detailsW panics during the Usage of node c.
UsagePanics(cm, ad, c) ==
    \/ cm[c].details # <<>> /\ DetailsWrite(cm, c).panic
    \/ HasArgsDetails(cm, ad, c) /\ PositionalWrite(cm, ad, c).panic

\* The part of the usage that describes the sub-commands, or the flags and
\* the positional arguments.
UsageBody(cm, ad, c, subs) ==
    IF HasSub(cm, c)
    THEN <<"Subcommands:\n\n">> \o Concat(SubLines(subs)) \o <<"\n">>
    ELSE (IF DOMAIN cm[c].formal # {}
          THEN <<"Flags:\n\n">> \o Concat(FlagLines(cm[c].formal)) \o <<"\n">>
          ELSE <<>>)
         \o (IF ~HasArgsDetails(cm, ad, c) THEN <<>>
             ELSE IF PositionalWrite(cm, ad, c).panic THEN <<"Positional arguments:\n\n">>
             ELSE <<"Positional arguments:\n\n">> \o PositionalWrite(cm, ad, c).b
                  \o <<"\n\n">>)

\* What (*SubCmd).Usage writes for node c (no synopsis, a shell without
\* completion support); a panic of a write ends the text.
UsageText(cm, ad, c, subs) ==
    Fprintf(UsageLine(cm, ad, c, subs) \o <<"\n\n">>)
    \o IF cm[c].details = <<>> THEN UsageBody(cm, ad, c, subs)
       ELSE IF DetailsWrite(cm, c).panic THEN <<>>
       ELSE DetailsWrite(cm, c).b \o <<"\n\n">> \o UsageBody(cm, ad, c, subs)

\* c.Usage(), called by the program: the text goes to the output.
UsageCall(c) ==
    /\ ~ret.exit
    /\ c \in Nodes
    /\ \E order \in MapOrders(DOMAIN cmds[c].sub) :
          out' = <<OutLine(c, UsageText(cmds, argsData, c, subNames(order)))>>
    /\ ret' = Ret("Usage", NilSlice, UsagePanics(cmds, argsData, c), NilErr)
    /\ UNCHANGED <<cmds, argsData, flagValue, born, formatter>>

(* ------------------------------ SpecUsage ------------------------------ *)
\* A name of 26 characters: "[a|" and it and "]" are 30 characters.
S_c26 == [i \in 1..26 |-> "c"]

\* The names of the sub-commands whose usage is printed.
UsageNames == {S_ab, S_a, S_c26}

S_usageX == <<"[x]">>
S_usagePct == <<"[", "%", "d", "]">>

\* The usage texts positional arguments are declared with.
UsageTexts == {S_empty, S_usageX, S_usagePct}

\* No usage has been printed yet.
Building == ret.op # "Usage"

\* A root with sub-commands, flags and positional arguments is declared, then
\* usages are printed.
NextUsage ==
    \/ \E name \in UsageNames : Building /\ SubCommand(Root, name)
    \/ \E c \in Nodes : Building /\ DeclareFlag(c, [name |-> S_v, bool |-> TRUE])
    \/ \E c \in Nodes, usage \in UsageTexts :
          Building /\ ArgsVar(c, MkArgs("ArgsStr", 0), usage)
    \/ \E c \in Nodes : UsageCall(c)

SpecUsage == Init /\ [][NextUsage]_vars

(* ------------------------------ SpecDetails ---------------------------- *)
\* The details texts of the node and of its positional arguments.
DetailTexts == SeqsUpTo({"a", " ", "\n"}, MaxDetails)

\* root := New(OptName("cmd"), OptDetails(details))
InitDetails ==
    /\ \E details \in DetailTexts :
          cmds = (Root :> [newSubCmd(S_cmd, "ContinueOnError", <<>>, TRUE)
                             EXCEPT !.details = details])
    /\ argsData = <<>>
    /\ flagValue = <<>>
    /\ out = <<>>
    /\ ret = Ret("New", NilSlice, FALSE, NilErr)
    /\ born = (Root :> {})
    /\ formatter = Formatter(<<>>, 0)

\* root.Args("", details), then root.Usage().
NextDetails ==
    \/ \E details \in DetailTexts :
          Building /\ ArgsVarFull(Root, MkArgs("ArgsStr", 0), S_empty, details, NoPredict)
    \/ UsageCall(Root)

SpecDetails == InitDetails /\ [][NextDetails]_vars

(* ------------------------------ completer ------------------------------ *)
\* The answer of a completer call on node c; nil is the empty answer.
Answer(op, c, result) == [Ret(op, NilSlice, FALSE, NilErr) EXCEPT !.node = c, !.result = result]

\* A nil pointer was dereferenced in a completer call on node c.
NilDeref(op, c) == [Ret(op, NilSlice, TRUE, NilErr) EXCEPT !.node = c]

\* c.args.value.(complete.Predictor): the value's type has a Predict method.
IsPredictor(value) == value.kind = "argsStrComp"

\* (*completer).ArgsGet: c.args is dereferenced first.
ArgsGetRet(cm, ad, c) ==
    IF cm[c].args = 0 THEN NilDeref("ArgsGet", c)
    ELSE IF ad[cm[c].args].predict.values # <<>>
    THEN Answer("ArgsGet", c, <<"c.args.predict", cm[c].args>>)
    ELSE IF IsPredictor(ad[cm[c].args].value)
    THEN Answer("ArgsGet", c, <<"c.args.value", cm[c].args>>)
    ELSE Answer("ArgsGet", c, <<>>)

\* (*completer).FlagList: the names in the order of FlagSet.VisitAll.
FlagListRet(cm, c) ==
    IF HasSub(cm, c) THEN Answer("FlagList", c, <<>>)
    ELSE Answer("FlagList", c, SortStrings(DOMAIN cm[c].formal))

\* (*completer).SubCmdGet: the completer of the child, as its node id; the
\* name asked for is kept with the call.
SubCmdGetRet(cm, c, name) ==
    [Answer("SubCmdGet", c, IF name \notin DOMAIN cm[c].sub THEN <<>>
                            ELSE <<cm[c].sub[name]>>)
       EXCEPT !.tokens = MkSlice(<<name>>, 0)]

\* A call of the completer of node c.
CompleterCall(r) ==
    /\ ~ret.exit
    /\ ret' = r
    /\ out' = <<>>
    /\ UNCHANGED <<cmds, argsData, flagValue, born, formatter>>

ArgsGet(c) == c \in Nodes /\ CompleterCall(ArgsGetRet(cmds, argsData, c))
FlagList(c) == c \in Nodes /\ CompleterCall(FlagListRet(cmds, c))
SubCmdGet(c, name) == c \in Nodes /\ CompleterCall(SubCmdGetRet(cmds, c, name))

(* ------------------------------ SpecComplete --------------------------- *)
\* The values and the options positional arguments are declared with.
CompleteValues == {MkArgs("ArgsStr", 0), MkArgs("argsStrComp", 0)}
CompleteOptions == {NoPredict, Predict(TRUE, <<>>), Predict(FALSE, <<S_a>>)}

\* A tree with flags and positional arguments is declared, and the completer
\* of any node is asked at any time.
NextComplete ==
    \/ \E c \in Nodes, name \in {S_a, S_b} : SubCommand(c, name)
    \/ \E c \in Nodes : DeclareFlag(c, [name |-> S_v, bool |-> TRUE])
    \/ \E c \in Nodes, value \in CompleteValues, options \in CompleteOptions :
          ArgsVarWith(c, value, S_empty, options)
    \/ \E c \in Nodes : ArgsGet(c)
    \/ \E c \in Nodes : FlagList(c)
    \/ \E c \in Nodes, name \in {S_a, S_b} : SubCmdGet(c, name)

SpecComplete == Init /\ [][NextComplete]_vars

(* ------------------------------ SpecFormatter -------------------------- *)
\* The bytes of the texts that are written.
TextBytes == {"a", " ", "\t", "\n"}
Texts == SeqsUpTo(TextBytes, MaxText)

\* The indents and widths of the Formatters.
Indents == {<<>>, <<" ">>}
Widths == {0, 1, 2}

\* The bytes a Formatter handed to its Writer.
OutBytes(b) == [k |-> "bytes", c |-> 0, msg |-> b]

\* f := Formatter{Writer: &got, Indent: indent, Width: width}
InitFormatter ==
    /\ cmds = (Root :> newSubCmd(S_cmd, "ContinueOnError", <<>>, TRUE))
    /\ argsData = <<>>
    /\ flagValue = <<>>
    /\ out = <<>>
    /\ ret = Ret("New", NilSlice, FALSE, NilErr)
    /\ born = (Root :> {})
    /\ \E indent \in Indents, width \in Widths : formatter = Formatter(indent, width)

\* f.Write(b)
Write(b) ==
    /\ formatter' = FormatterWrite(formatter, b).f
    /\ out' = IF FormatterWrite(formatter, b).panic THEN <<>>
              ELSE <<OutBytes(FormatterWrite(formatter, b).b)>>
    /\ ret' = Ret("Write", MkSlice(b, 0), FormatterWrite(formatter, b).panic, NilErr)
    /\ UNCHANGED <<cmds, argsData, flagValue, born>>

\* One text is written to a new Formatter, as in TestFormatter.
NextFormatter == \E b \in Texts : ret.op # "Write" /\ Write(b)

SpecFormatter == InitFormatter /\ [][NextFormatter]_vars

(* ------------------------------ SpecTree ------------------------------- *)
\* The command lines of SpecTree.
TreeLists == {MkSlice(<<S_cmd>> \o l, 0) : l \in SeqsUpTo({S_a, S_dashV, S_x}, MaxTokens - 1)}

\* Sub-commands of the root, a flag and positional arguments are declared in
\* any order, also between parses and after them.
NextTree ==
    \/ \E name \in {S_a, S_b} : SubCommand(Root, name)
    \/ \E c \in Nodes : DeclareFlag(c, [name |-> S_v, bool |-> TRUE])
    \/ \E c \in Nodes : ArgsVar(c, MkArgs("ArgsStr", 0), S_empty)
    \/ \E tokens \in TreeLists : ParseArgs(tokens)

SpecTree == Init /\ [][NextTree]_vars

(* ------------------------------ SpecAgain ------------------------------ *)
\* The command lines of SpecAgain.
AgainLists == {MkSlice(<<S_cmd>> \o l, 0) : l \in SeqsUpTo({S_a, S_b, S_x}, MaxTokens - 1)}

\* The sub-commands a and b of the root are declared and the tree is parsed
\* any number of times, as the cases of TestCmd_valueCheck parse one tree.
NextAgain ==
    \/ \E name \in {S_a, S_b} : SubCommand(Root, name)
    \/ \E tokens \in AgainLists : ParseArgs(tokens)

SpecAgain == Init /\ [][NextAgain]_vars

(* ------------------------------ SpecSet -------------------------------- *)
S_minus7 == <<"-", "7">>
S_07 == <<"0", "7">>
S_7x == <<"7", "x">>
S_2p63 == MinInt64Digits

\* The tokens Set is called with.
SetTokens == {S_7, S_minus7, S_07, S_x, S_7x, S_empty, S_2p63}
SetLists == {MkSlice(l, 0) : l \in SeqsUpTo(SetTokens, MaxSetLen)}

\* root.ArgsVar(&value, "", "") with value := make(cmd.ArgsInt, 0, n).
InitSet ==
    /\ \E n \in 0..MaxCap :
          /\ cmds = (Root :> [newSubCmd(S_cmd, "ContinueOnError", <<>>, TRUE) EXCEPT !.args = Root])
          /\ argsData = (Root :> [value |-> MkArgs("ArgsInt", n), usage |-> S_argsDefault,
                                  details |-> <<>>, predict |-> NoPredict,
                                  sets |-> 0, made |-> n])
    /\ flagValue = <<>>
    /\ out = <<>>
    /\ ret = Ret("ArgsVar", NilSlice, FALSE, NilErr)
    /\ born = (Root :> {})
    /\ formatter = Formatter(<<>>, 0)

\* value.Set(args) on the value of binding b.
Set(b, args) ==
    /\ b \in DOMAIN argsData
    /\ argsData' = [argsData EXCEPT ![b].value = ValueSet(@, args).a, ![b].sets = 1]
    /\ ret' = Ret("Set", args, FALSE, ValueSet(argsData[b].value, args).err)
    /\ UNCHANGED <<cmds, flagValue, out, born, formatter>>

NextSet == \E args \in SetLists : Set(Root, args)

SpecSet == InitSet /\ [][NextSet]_vars

(* ------------------------------ SpecRule ------------------------------- *)
\* The token slices of SpecRule: integers only, the slice with or without
\* spare capacity.
RuleLists ==
    {MkSlice(l, spare) : l \in SeqsUpTo({S_7, S_minus7, S_07}, MaxSetLen), spare \in 0..1}

\* root.ArgsVar(&value, "", "") with value := make(cmd.ArgsStr, 0, n) or
\* value := make(cmd.ArgsInt, 0, n).
InitRule ==
    /\ \E kind \in {"ArgsStr", "ArgsInt"}, n \in 0..MaxCap :
          /\ cmds = (Root :> [newSubCmd(S_cmd, "ContinueOnError", <<>>, TRUE) EXCEPT !.args = Root])
          /\ argsData = (Root :> [value |-> MkArgs(kind, n), usage |-> S_argsDefault,
                                  details |-> <<>>, predict |-> NoPredict,
                                  sets |-> 0, made |-> n])
    /\ flagValue = <<>>
    /\ out = <<>>
    /\ ret = Ret("ArgsVar", NilSlice, FALSE, NilErr)
    /\ born = (Root :> {})
    /\ formatter = Formatter(<<>>, 0)

\* Set is called on the value again and again.
NextRule == \E args \in RuleLists : Set(Root, args)

SpecRule == InitRule /\ [][NextRule]_vars

(* ------------------------------ SpecFlags ------------------------------ *)
\* The command lines of SpecFlags.
FlagTokenLists == {MkSlice(<<S_cmd>> \o l, 0) : l \in SeqsUpTo({S_a, S_dashV}, 2)}

\* The declaration of sub-commands and flags in any order, and parses of the
\* tree declared so far.
NextFlags ==
    \/ \E c \in Nodes, name \in {S_a, S_b} : SubCommand(c, name)
    \/ \E c \in Nodes, fl \in FlagInputs : DeclareFlag(c, fl)
    \/ \E tokens \in FlagTokenLists : ParseArgs(tokens)

SpecFlags == Init /\ [][NextFlags]_vars

(* ------------------------- reading a command line ---------------------- *)
\* A token that the flag package takes for a positional argument.
IsPlain(t) == Len(t) < 2 \/ t[1] # "-"

\* Following child names from c: the node reached and the tokens left.
RECURSIVE Descend(_, _, _)
Descend(cm, c, toks) ==
    IF HasSub(cm, c) /\ toks # <<>> /\ toks[1] \in DOMAIN cm[c].sub
    THEN Descend(cm, cm[c].sub[toks[1]], Tail(toks))
    ELSE [c |-> c, rest |-> toks]

\* The number of leading tokens of toks that are not plain.
RECURSIVE DashPrefix(_)
DashPrefix(toks) ==
    IF toks # <<>> /\ ~IsPlain(toks[1]) THEN 1 + DashPrefix(Tail(toks)) ELSE 0

\* "-name" or "--name" of a bool flag that node c holds.
IsBoolFlagOf(cm, c, t) ==
    \E nm \in DOMAIN cm[c].formal :
        /\ cm[c].formal[nm].bool
        /\ t \in {<<"-">> \o nm, <<"-", "-">> \o nm}

\* The positional tokens toks fit the binding of node c as it was declared.
FitsBinding(cm, ad, c, toks) ==
    /\ \A i \in 1..Len(toks) : IsPlain(toks[i])
    /\ IF cm[c].args = 0 THEN toks = <<>>
       ELSE ad[cm[c].args].value.cap = 0 \/ Len(toks) = ad[cm[c].args].value.cap

\* The token slice selects a leaf: one child name per level with children,
\* then flags the leaf holds, then positional tokens its binding takes.
SelectsLeaf(cm, ad, tokens) ==
    /\ Len(tokens.e) >= 1
    /\ LET d == Descend(cm, Root, Tail(tokens.e))
           k == DashPrefix(d.rest)
       IN  /\ ~HasSub(cm, d.c)
           /\ \A i \in 1..k : IsBoolFlagOf(cm, d.c, d.rest[i])
           /\ FitsBinding(cm, ad, d.c, Drop(d.rest, k))

\* The leaf a token slice selects.
Leaf(cm, tokens) == Descend(cm, Root, Tail(tokens.e)).c

\* A step of ParseArgs that did not panic.
ParseStep == ret'.op = "ParseArgs" /\ ~ret'.panic

(* ------------------------------ C1 ------------------------------------- *)
\* C1: on a freshly built tree, every token slice that selects a leaf N makes
\* ParseArgs return no error, and afterwards Parsed() is true exactly for the
\* nodes on the path from the root to N.
C1_PathSelected ==
    [][(ParseStep /\ Fresh /\ SelectsLeaf(cmds, argsData, ret'.tokens)) =>
          /\ ret'.err.nil
          /\ \A c \in Nodes :
                cmds'[c].parsed <=> c \in PathTo(cmds, Leaf(cmds, ret'.tokens))]_vars

(* ------------------------------ C2 ------------------------------------- *)
\* The leaf selected by the tokens inherited its binding from an ancestor, and
\* the tokens after the sub-command names are positional tokens that fit it.
InheritedArgsCase(cm, ad, tokens) ==
    /\ Len(tokens.e) >= 1
    /\ LET d == Descend(cm, Root, Tail(tokens.e)) IN
       /\ ~HasSub(cm, d.c)
       /\ cm[d.c].args # 0
       /\ cm[d.c].args # d.c
       /\ ad[cm[d.c].args].value.kind = "ArgsStr"
       /\ FitsBinding(cm, ad, d.c, d.rest)

\* C2: a sub-command added after its parent declared positional arguments has
\* them: selecting it with positional tokens t1..tn parses without error and
\* leaves the declared value equal to [t1..tn].
C2_InheritedArgs ==
    [][(ParseStep /\ Fresh /\ InheritedArgsCase(cmds, argsData, ret'.tokens)) =>
          /\ ret'.err.nil
          /\ argsData'[cmds[Leaf(cmds, ret'.tokens)].args].value.e
                = Descend(cmds, Root, Tail(ret'.tokens.e)).rest]_vars

(* ------------------------------ C3 ------------------------------------- *)
\* Node c holds a flag it declared after one of its sub-commands was added:
\* the sub-command did not get the flag's value when it was created.
LateFlag(cm, c) ==
    \E nm \in DOMAIN cm[c].formal, k \in DOMAIN cm[c].sub :
        \/ nm \notin DOMAIN cm[cm[c].sub[k]].formal
        \/ cm[cm[c].sub[k]].formal[nm].value # cm[c].formal[nm].value

\* C3: a flag declared on a node after a sub-command was added to it raises a
\* panic at the latest when ParseArgs is next called, whatever else was
\* declared, a flag of the same name on the children included. (The
\* declaration itself never panics for it: DeclareFlag does not look at sub.)
C3_LateFlagPanics ==
    [][(ret'.op = "ParseArgs" /\ \E c \in Nodes : LateFlag(cmds, c)) => ret'.panic]_vars

(* ------------------------------ C4 ------------------------------------- *)
\* Node m declared positional arguments itself.
Declared(cm, m) == cm[m].args = m

\* m and c lie on one root-to-leaf path.
SamePath(cm, m, c) == m \in PathTo(cm, c) \/ c \in PathTo(cm, m)

\* All non-nil bindings along any root-to-leaf path are the same binding.
OneBindingPerPath(cm) ==
    \A n \in DOMAIN cm : \A m \in PathTo(cm, n) :
        (cm[m].args # 0 /\ cm[n].args # 0) => cm[m].args = cm[n].args

\* C4: ArgsVar on a node c panics whenever another node on a root-to-leaf
\* path through c has declared positional arguments; on a node that can take
\* a declaration (no children, C5) it goes through when every declaring node
\* lies off the paths through c; and so the non-nil bindings along any path are
\* always one and the same binding.
C4_ArgsPaths ==
    [][/\ \A c \in Nodes, value \in ArgsInputs :
             ArgsVar(c, value, <<>>) =>
                /\ (\E m \in Nodes \ {c} : Declared(cmds, m) /\ SamePath(cmds, m, c))
                       => (ret'.panic /\ cmds' = cmds /\ argsData' = argsData)
                /\ (/\ ~HasSub(cmds, c)
                    /\ \A m \in Nodes : Declared(cmds, m) => ~SamePath(cmds, m, c))
                       => (~ret'.panic /\ Declared(cmds', c))
       /\ OneBindingPerPath(cmds')]_vars

\* Two branches have declared positional arguments, and a later ArgsVar on a
\* path through one of them panicked.
C4_Witness ==
    /\ ret.op = "ArgsVar"
    /\ ret.panic
    /\ \E m, n \in Nodes : m # n /\ Declared(cmds, m) /\ Declared(cmds, n)

(* ------------------------------ C5 ------------------------------------- *)
\* C5: ArgsVar goes through only on a node with no children and no binding;
\* on a node that has a child or has a binding already it panics and leaves
\* the node's binding, or its absence, as it was.
C5_ArgsVarOnce ==
    [][\A c \in Nodes, value \in ArgsInputs :
          ArgsVar(c, value, <<>>) =>
             /\ (HasSub(cmds, c) \/ cmds[c].args # 0)
                    => (ret'.panic /\ cmds'[c].args = cmds[c].args /\ argsData' = argsData)
             /\ ~ret'.panic => (~HasSub(cmds, c) /\ cmds[c].args = 0)]_vars

\* ArgsVar panicked in a tree where every node has a child or a binding, one
\* with a child and no binding, one with a binding.
C5_Witness ==
    /\ ret.op = "ArgsVar"
    /\ ret.panic
    /\ \A c \in Nodes : HasSub(cmds, c) \/ cmds[c].args # 0
    /\ \E c \in Nodes : HasSub(cmds, c) /\ cmds[c].args = 0
    /\ \E c \in Nodes : ~HasSub(cmds, c) /\ cmds[c].args = c

(* ------------------------------ C6 ------------------------------------- *)
\* C6: declaring a flag on a node panics whenever the node holds the name
\* already or an ancestor held it when the node was created; a name that
\* neither the node nor its ancestors hold is accepted.
C6_FlagCollision ==
    [][\A c \in Nodes, fl \in FlagInputs :
          DeclareFlag(c, fl) =>
             /\ fl.name \in (DOMAIN cmds[c].formal \cup born[c]) => ret'.panic
             /\ fl.name \notin AncestorFlags(cmds, c) => ~ret'.panic]_vars

(* ------------------------------ C7 ------------------------------------- *)
\* C7: SubCommand(name) panics for an empty name, a name that begins with
\* '-' and the name of an existing child, and leaves the children as they
\* were; otherwise it adds exactly one child, a new node, under that name.
C7_SubCommandNames ==
    [][\A c \in Nodes, name \in SubNameInputs :
          SubCommand(c, name) =>
             IF Len(name) = 0 \/ name[1] = "-" \/ name \in DOMAIN cmds[c].sub
             THEN ret'.panic /\ cmds' = cmds
             ELSE /\ ~ret'.panic
                  /\ DOMAIN cmds'[c].sub = DOMAIN cmds[c].sub \cup {name}
                  /\ \A k \in DOMAIN cmds[c].sub : cmds'[c].sub[k] = cmds[c].sub[k]
                  /\ cmds'[c].sub[name] \notin DOMAIN cmds
                  /\ DOMAIN cmds' = DOMAIN cmds \cup {cmds'[c].sub[name]}
                  /\ \A x \in DOMAIN cmds \ {c} : cmds'[x] = cmds[x]]_vars

\* SubCommand panicked on a node that keeps its two children.
C7_Witness ==
    /\ ret.op = "SubCommand"
    /\ ret.panic
    /\ \E c \in Nodes : DOMAIN cmds[c].sub = {S_a, S_b}

(* ------------------------------ C8 ------------------------------------- *)
\* The tokens select a leaf whose binding is an ArgsStr made with a capacity
\* above 0, and only positional tokens follow the sub-command names.
FixedCase(cm, ad, tokens) ==
    /\ Len(tokens.e) >= 1
    /\ LET d == Descend(cm, Root, Tail(tokens.e)) IN
       /\ ~HasSub(cm, d.c)
       /\ cm[d.c].args # 0
       /\ ad[cm[d.c].args].value.kind = "ArgsStr"
       /\ ad[cm[d.c].args].value.cap > 0
       /\ \A i \in 1..Len(d.rest) : IsPlain(d.rest[i])

\* C8: with a binding that is an ArgsStr of capacity K > 0, a parse with
\* exactly K positional tokens returns no error and leaves the value equal to
\* the tokens, and a parse with fewer or more returns an error.
C8_FixedLength ==
    [][(ParseStep /\ Fresh /\ FixedCase(cmds, argsData, ret'.tokens)) =>
          LET d == Descend(cmds, Root, Tail(ret'.tokens.e))
              b == cmds[d.c].args
          IN  IF Len(d.rest) = argsData[b].value.cap
              THEN ret'.err.nil /\ argsData'[b].value.e = d.rest
              ELSE ~ret'.err.nil]_vars

(* ------------------------------ C9 ------------------------------------- *)
\* The tokens of SetTokens that are decimal integers of Go's int, with the
\* integer each denotes.
IntOf == (S_7 :> 7) @@ (S_minus7 :> (0 - 7)) @@ (S_07 :> 7)

IsInt(t) == t \in DOMAIN IntOf

\* The (1-based) index of the first token that is not an integer.
FirstBad(toks) ==
    CHOOSE i \in 1..Len(toks) : ~IsInt(toks[i]) /\ \A j \in 1..(i - 1) : IsInt(toks[j])

\* The capacity rule: a value with capacity above 0 takes that many tokens.
CapRule(a, toks) == a.cap = 0 \/ Len(toks) = a.cap

\* C9: ArgsInt.Set returns no error exactly when the token count meets the
\* capacity rule and every token is an integer, and then the value is the
\* integers in input order; when the count is right and some token is not an
\* integer, the error names the zero-based position and the text of the first
\* such token.
C9_ArgsIntSet ==
    [][\A args \in SetLists :
          Set(Root, args) =>
             LET a == argsData[Root].value
                 toks == args.e
                 allInt == \A i \in 1..Len(toks) : IsInt(toks[i])
             IN  /\ ret'.err.nil <=> (CapRule(a, toks) /\ allInt)
                 /\ ret'.err.nil =>
                       argsData'[Root].value.e = [i \in 1..Len(toks) |-> IntOf[toks[i]]]
                 /\ (CapRule(a, toks) /\ ~allInt) =>
                       ret'.err.msg =
                          <<"invalid int positional argument at position ",
                            DigitChar(FirstBad(toks) - 1), " with value ">>
                          \o toks[FirstBad(toks)]]_vars

\* Set failed on two tokens of which both are not integers, the first being
\* the one out of the range of int.
C9_Witness ==
    /\ ret.op = "Set"
    /\ ~ret.err.nil
    /\ Len(ret.tokens.e) = 2
    /\ ret.tokens.e[1] = S_2p63
    /\ ret.tokens.e[2] = S_x
    /\ ret.err.msg[1] = "invalid int positional argument at position "

(* ------------------------------ C10 ------------------------------------ *)
\* The first token after the sub-command names is -h, -help or --help: it
\* stands where a node with children takes a sub-command name, or it is the
\* first flag of a leaf.
HelpCase(cm, tokens) ==
    /\ Len(tokens.e) >= 2
    /\ LET d == Descend(cm, Root, Tail(tokens.e)) IN
       d.rest # <<>> /\ d.rest[1] \in HelpTokens

\* C10: a help token at any depth makes ParseArgs return an error that is
\* flag.ErrHelp for errors.Is, after the usage of exactly the node at which
\* the token stands was written.
C10_HelpRecognized ==
    [][(ParseStep /\ Fresh /\ HelpCase(cmds, ret'.tokens)) =>
          /\ ret'.err.is
          /\ out' = <<OutUsage(Leaf(cmds, ret'.tokens))>>]_vars

(* ------------------------------ C11 ------------------------------------ *)
\* The names of the proper ancestors of c from the root down, each followed
\* by " > ": what the levels above c put before an error of c.
RECURSIVE Wraps(_, _)
Wraps(cm, c) ==
    IF c = Root THEN <<>> ELSE Wraps(cm, Parent(cm, c)) \o cm[Parent(cm, c)].name \o <<" > ">>

\* -h, -help, --help
HelpWords == {<<"-", "h">>, <<"-", "h", "e", "l", "p">>, <<"-", "-", "h", "e", "l", "p">>}

\* C11: when the tokens that are exact child names lead to a node with
\* children, the parse fails there: with no token left the error is "must
\* provide sub command", with a token that is no help token it is "invalid
\* command: <token>", and no child is selected (no node gets parsed).
C11_Dispatch ==
    [][(ParseStep /\ Fresh /\ Len(ret'.tokens.e) >= 1
          /\ HasSub(cmds, Leaf(cmds, ret'.tokens))) =>
          LET d == Descend(cmds, Root, Tail(ret'.tokens.e)) IN
          /\ ~ret'.err.nil
          /\ \A c \in Nodes : ~cmds'[c].parsed
          /\ d.rest = <<>> =>
                ret'.err.msg = Wraps(cmds, d.c) \o <<"must provide sub command">>
          /\ (d.rest # <<>> /\ d.rest[1] \notin HelpWords) =>
                ret'.err.msg = Wraps(cmds, d.c) \o <<"invalid command: ">> \o d.rest[1]
          /\ (d.rest # <<>> /\ d.rest[1] \in HelpWords) =>
                ret'.err.msg = Wraps(cmds, d.c) \o ErrHelp.msg]_vars

\* A parse stopped at the node "cmd a", which has the child "ab" only, on the
\* token "a" with "invalid command".
C11_Witness ==
    /\ ret.op = "ParseArgs"
    /\ Len(ret.tokens.e) >= 3
    /\ ret.tokens.e[2] = S_a
    /\ ret.tokens.e[3] = S_a
    /\ S_a \in DOMAIN cmds[Root].sub
    /\ DOMAIN cmds[cmds[Root].sub[S_a]].sub = {S_ab}
    /\ ret.err.msg = <<"c", "m", "d", " > ", "invalid command: ", "a">>

(* ------------------------------ C12 ------------------------------------ *)
\* The number of leading tokens of toks that are bool flags node c holds.
RECURSIVE OwnFlags(_, _, _)
OwnFlags(cm, c, toks) ==
    IF toks # <<>> /\ IsBoolFlagOf(cm, c, toks[1]) THEN 1 + OwnFlags(cm, c, Tail(toks)) ELSE 0

\* The tokens after the flags of c end well: with the end of the list, with
\* "--" or with a token that is no flag.
FlagsEndWell(cm, c, toks) ==
    LET t == Drop(toks, OwnFlags(cm, c, toks)) IN
    t = <<>> \/ t[1] = <<"-", "-">> \/ IsPlain(t[1])

\* What flag parsing at c leaves of toks.
Remainder(cm, c, toks) ==
    LET t == Drop(toks, OwnFlags(cm, c, toks)) IN
    IF t # <<>> /\ t[1] = <<"-", "-">> THEN Tail(t) ELSE t

\* C12: at a selected leaf without a positional binding, an empty remainder
\* after the flags is accepted, and a remainder with tokens makes the parse
\* return the error "positional args not expected" that names them.
C12_NoBinding ==
    [][(ParseStep /\ Fresh /\ Len(ret'.tokens.e) >= 1
          /\ ~HasSub(cmds, Leaf(cmds, ret'.tokens))
          /\ cmds[Leaf(cmds, ret'.tokens)].args = 0
          /\ FlagsEndWell(cmds, Leaf(cmds, ret'.tokens),
                          Descend(cmds, Root, Tail(ret'.tokens.e)).rest)) =>
          LET d == Descend(cmds, Root, Tail(ret'.tokens.e))
              r == Remainder(cmds, d.c, d.rest)
          IN  IF r = <<>> THEN ret'.err.nil
              ELSE ret'.err.msg =
                      Wraps(cmds, d.c) \o cmds[d.c].name
                      \o <<": bad positional args: ", "positional args not expected, got ">>
                      \o FmtList(r)]_vars

\* The leaf "cmd a" took its flag -v and then refused the token "x".
C12_Witness ==
    /\ ret.op = "ParseArgs"
    /\ ret.tokens.e = <<S_cmd, S_a, S_dashV, S_x>>
    /\ ~ret.panic
    /\ ~ret.err.nil
    /\ \E fv \in DOMAIN flagValue : flagValue[fv] = S_true

(* ------------------------------ C13 ------------------------------------ *)
\* The child of m on the way down to c, a node below m.
ChildToward(cm, m, c) == CHOOSE n \in PathTo(cm, c) : Parent(cm, n) = m

\* Node m declared flag nm itself (no ancestor of m holds the name) and did
\* so before its sub-command on the way to the leaf c was created.
DeclaredBefore(cm, m, c, nm) ==
    /\ m \in Ancestors(cm, c)
    /\ nm \in DOMAIN cm[m].formal
    /\ cm[m].formal[nm].value = NewValue(m, nm)
    /\ \A g \in Ancestors(cm, m) : nm \notin DOMAIN cm[g].formal
    /\ nm \in born[ChildToward(cm, m, c)]

\* C13: a flag that an ancestor of the selected leaf declared before its
\* sub-command was created is a flag of the leaf, at every depth: -v in the
\* leaf's flag segment is accepted and sets the value of the ancestor's
\* declaration.
C13_FlagsReflected ==
    [][(ParseStep /\ Fresh /\ Len(ret'.tokens.e) >= 1
          /\ ~HasSub(cmds, Leaf(cmds, ret'.tokens))) =>
          LET d == Descend(cmds, Root, Tail(ret'.tokens.e)) IN
          \A m \in Nodes :
             (DeclaredBefore(cmds, m, d.c, S_v) /\ d.rest # <<>> /\ d.rest[1] = S_dashV) =>
                 /\ flagValue[NewValue(m, S_v)] = S_false
                 /\ flagValue'[NewValue(m, S_v)] = S_true
                 /\ Len(d.rest) = 1 => ret'.err.nil]_vars

\* The flag the root declared first was set by "cmd a a -v", and by "cmd a b -v".
C13_Witness ==
    /\ ret.op = "ParseArgs"
    /\ ret.tokens.e \in {<<S_cmd, S_a, S_a, S_dashV>>, <<S_cmd, S_a, S_b, S_dashV>>}
    /\ ret.err.nil
    /\ NewValue(Root, S_v) \in DOMAIN flagValue
    /\ flagValue[NewValue(Root, S_v)] = S_true

(* ------------------------------ C14 ------------------------------------ *)
\* The flag values that the flags in the segment toks of node c set.
SetBy(cm, c, toks) ==
    {cm[c].formal[nm].value : nm \in {n \in DOMAIN cm[c].formal :
        \E i \in 1..OwnFlags(cm, c, toks) : toks[i] \in {<<"-">> \o n, <<"-", "-">> \o n}}}

\* C14: a token list that ParseArgs accepts is sub-command names down to a
\* leaf, then flags of the leaf, then positional tokens: only the flags in the
\* leaf's segment are set and the tokens after them are the positional
\* arguments; and at a node with children a flag-like token in the place of
\* the sub-command name is rejected and sets no flag.
C14_Shape ==
    [][(ParseStep /\ Fresh /\ Len(ret'.tokens.e) >= 1) =>
          LET d == Descend(cmds, Root, Tail(ret'.tokens.e))
              r == Remainder(cmds, d.c, d.rest)
          IN  /\ ret'.err.nil =>
                    /\ ~HasSub(cmds, d.c)
                    /\ FlagsEndWell(cmds, d.c, d.rest)
                    /\ \A fv \in DOMAIN flagValue :
                          flagValue'[fv] = IF fv \in SetBy(cmds, d.c, d.rest)
                                           THEN S_true ELSE flagValue[fv]
                    /\ cmds[d.c].args = 0 => r = <<>>
                    /\ cmds[d.c].args = d.c => argsData'[d.c].value.e = r
              /\ (HasSub(cmds, d.c) /\ d.rest # <<>> /\ ~IsPlain(d.rest[1])) =>
                    /\ ~ret'.err.nil
                    /\ flagValue' = flagValue]_vars

\* "cmd a -v x" was accepted by the leaf "cmd a" that holds -v and positional
\* arguments of its own.
C14_Witness ==
    /\ ret.op = "ParseArgs"
    /\ ret.tokens.e = <<S_cmd, S_a, S_dashV, S_x>>
    /\ ret.err.nil
    /\ ~ret.panic
    /\ \E c \in Nodes : cmds[c].args = c /\ argsData[c].value.e = <<S_x>>

(* ------------------------------ C15 ------------------------------------ *)
\* Node p, above the node c the tokens lead to, declared flag nm itself.
ParentFlag(cm, p, c, nm) ==
    /\ p \in Ancestors(cm, c)
    /\ nm \in DOMAIN cm[p].formal
    /\ cm[p].formal[nm].value = NewValue(p, nm)

Accepts(cm, tokens) ==
    LET d == Descend(cm, Root, Tail(tokens.e)) IN ~HasSub(cm, d.c) /\ d.rest = <<>>

\* C16: without an error ParseArgs returns nil under every policy; with an
\* error, raised at the root or at a sub-command, it returns the error under
\* ContinueOnError, panics with it under PanicOnError and ends the process
\* with status 2 under ExitOnError, the policy being the root's.
C16_Policy ==
    [][(ret'.op = "ParseArgs" /\ Fresh /\ Len(ret'.tokens.e) >= 1) =>
          IF Accepts(cmds, ret'.tokens)
          THEN ret'.err.nil /\ ~ret'.panic /\ ~ret'.exit
          ELSE /\ ~ret'.err.nil
               /\ ret'.panic <=> cmds[Root].errorHandling = "PanicOnError"
               /\ ret'.exit <=> cmds[Root].errorHandling = "ExitOnError"
               /\ ret'.exit => ret'.status = 2]_vars

\* A help request at the sub-command "cmd a" ended the process.
C16_Witness ==
    /\ ret.op = "ParseArgs"
    /\ ret.tokens.e = <<S_cmd, S_a, S_dashH>>
    /\ S_a \in DOMAIN cmds[Root].sub
    /\ ret.exit
    /\ ret.status = 2

(* ------------------------------ C17 ------------------------------------ *)
\* The beginnings of the errors that node c raises itself.
RaisedAt(cm, c) ==
    {<<"must provide sub command">>, <<"invalid command: ">>, ErrHelp.msg,
     cm[c].name \o <<": bad flags: ">>, cm[c].name \o <<": bad positional args: ">>}

\* C17: the message of an error raised at the node the tokens lead to begins
\* with the names of that node's ancestors, from the root down, each followed
\* by " > " (the name of a sub-command being the path to it, as "cmd a"), and
\* then goes on with the error of the node itself.
C17_Wrapped ==
    [][(ParseStep /\ Fresh /\ Len(ret'.tokens.e) >= 1 /\ ~ret'.err.nil) =>
          LET d == Descend(cmds, Root, Tail(ret'.tokens.e))
              w == Wraps(cmds, d.c)
          IN  /\ Len(ret'.err.msg) > Len(w)
              /\ Take(ret'.err.msg, Len(w)) = w
              /\ \E b \in RaisedAt(cmds, d.c) :
                    /\ Len(ret'.err.msg) >= Len(w) + Len(b)
                    /\ SubSeq(ret'.err.msg, Len(w) + 1, Len(w) + Len(b)) = b]_vars

\* An error of a sub-command two levels down came back with both ancestors'
\* names: "cmd > cmd a > cmd a ...".
C17_Witness ==
    /\ ret.op = "ParseArgs"
    /\ ~ret.panic
    /\ Len(ret.tokens.e) = 4
    /\ Len(ret.err.msg) > 14
    /\ Take(ret.err.msg, 14) =
          <<"c", "m", "d", " > ", "c", "m", "d", " ", "a", " > ", "c", "m", "d", " ">>

(* ------------------------------ C18 ------------------------------------ *)
\* C18: with the check enabled, a parse with a positional token outside the
\* declared values returns an error and leaves the binding's value as it was,
\* whatever the other tokens are; when every token passes, or the check is not
\* enabled, Set gets the tokens: a list it takes becomes the value.
C18_CheckThenSet ==
    [][(ret'.op = "ParseArgs" /\ ~ret'.panic /\ cmds[Root].args # 0) =>
             LET toks == Tail(ret'.tokens.e)
                 p == argsData[Root].predict
                 a == argsData[Root].value
                 refused == p.check /\ \E i \in 1..Len(toks) : toks[i] \notin {S_a, S_b}
             IN  IF refused
                 THEN ~ret'.err.nil /\ argsData'[Root].value = a
                 ELSE /\ (a.cap = 0 \/ Len(toks) = a.cap) =>
                            (ret'.err.nil /\ argsData'[Root].value.e = toks)
                      /\ ~ret'.err.nil => argsData'[Root].value = a]_vars

\* After a parse had set the value to [a b], a parse of "b x" was refused and
\* left it.
C18_Witness ==
    /\ ret.op = "ParseArgs"
    /\ ret.tokens.e = <<S_cmd, S_b, S_x>>
    /\ ~ret.err.nil
    /\ cmds[Root].args # 0
    /\ argsData[Root].predict.check
    /\ argsData[Root].value.e = <<S_a, S_b>>

(* ------------------------------ C19 ------------------------------------- *)
\* The text up to the end of its first line.
FirstLine(msg) ==
    SubSeq(msg, 1, (CHOOSE i \in 1..Len(msg) :
                       msg[i] = "\n\n" /\ \A j \in 1..(i - 1) : msg[j] # "\n\n") - 1)

\* The names of L are in strictly increasing order.
Ascending(L) == \A i, j \in 1..Len(L) : i < j => StrLess(L[i], L[j])

\* The bracketed list of the names of L.
Bracketed(L) == <<"[">> \o Join(L, <<"|">>) \o <<"]">>

\* The usage line the specification describes for node c.
LineOf(c) ==
    IF DOMAIN cmds[c].sub = {}
    THEN <<"Usage: ">> \o cmds[c].name
         \o (IF DOMAIN cmds[c].formal # {} THEN <<" [flags]">> ELSE <<>>)
         \o (IF cmds[c].args # 0 THEN <<" ">> \o argsData[cmds[c].args].usage ELSE <<>>)
    ELSE LET L == CHOOSE L \in MapOrders(DOMAIN cmds[c].sub) : Ascending(L)
         IN  <<"Usage: ">> \o cmds[c].name
             \o IF Len(Bracketed(L)) <= 30 THEN <<" ">> \o Bracketed(L)
                ELSE <<" ", "[subcommands...]">>

\* C19: the first line of a node's usage is "Usage: " and the node's full
\* path, followed for a leaf by " [flags]" exactly when it has a flag and then
\* by the usage text of its positional binding when it has one ("[args...]"
\* when it was declared with an empty text), and for a node with children only
\* by the bracketed list of the children's names in increasing order, or by
\* "[subcommands...]" when that list is longer than 30 characters.
C19_UsageLine ==
    /\ [][ret'.op = "Usage" => FirstLine(out'[1].msg) = LineOf(out'[1].c)]_vars
    /\ [][\A c \in Nodes, usage \in UsageTexts :
             (/\ ret'.op = "ArgsVar" /\ ~ret'.panic
              /\ ArgsVar(c, MkArgs("ArgsStr", 0), usage)) =>
                argsData'[cmds'[c].args].usage =
                    IF usage = S_empty THEN <<"[args...]">> ELSE usage]_vars

(* ------------------------------ C20 ------------------------------------- *)
\* The lines of the sub-command listing for the names of L, in that order.
Listing(L) ==
    Concat([i \in 1..Len(L) |-> <<" ", " ">> \o Pad(L[i], SubLength(L)) \o <<"\t", "\n">>])

\* C20: printing the usage of the same node twice gives the same text, and
\* the usage line and the sub-command listing name the children in increasing
\* order of their names, in whatever order they were declared and in whatever
\* order the map yields them.
C20_Deterministic ==
    /\ [][(ret.op = "Usage" /\ ret'.op = "Usage" /\ out'[1].c = out[1].c) =>
             out' = out]_vars
    /\ [][(ret'.op = "Usage" /\ DOMAIN cmds[out'[1].c].sub # {}) =>
             \E L \in MapOrders(DOMAIN cmds[out'[1].c].sub) :
                 /\ Ascending(L)
                 /\ out'[1].msg = FirstLine(out'[1].msg)
                                    \o <<"\n\n", "Subcommands:\n\n">> \o Listing(L) \o <<"\n">>
                 /\ Len(Bracketed(L)) <= 30 =>
                       FirstLine(out'[1].msg) =
                           <<"Usage: ">> \o cmds[out'[1].c].name \o <<" ">> \o Bracketed(L)]_vars

\* The usage of a root has been printed twice, its child "ab" having been
\* declared before its child "a".
C20_Witness ==
    /\ ret.op = "Usage"
    /\ out[1].c = Root
    /\ DOMAIN cmds[Root].sub = {S_a, S_ab}
    /\ cmds[Root].sub[S_ab] < cmds[Root].sub[S_a]
    /\ out[1].msg = <<"Usage: ">> \o S_cmd \o <<" ", "[">> \o S_a \o <<"|">> \o S_ab
                    \o <<"]", "\n\n", "Subcommands:\n\n", " ", " ", "a", " ", "\t", "\n",
                         " ", " ", "a", "b", "\t", "\n", "\n">>

(* ------------------------------ C21 ------------------------------------- *)
\* The texts that differ from b only where a space or a tab of b is a newline.
Breaks(b) ==
    {t \in [1..Len(b) -> {" ", "\t", "\n", "a"}] :
        \A k \in 1..Len(b) : t[k] = b[k] \/ (b[k] \in {" ", "\t"} /\ t[k] = "\n")}

\* The text t with indent put at the start of each of its lines.
RECURSIVE Indented(_, _, _)
Indented(t, indent, atStart) ==
    IF t = <<>> THEN <<>>
    ELSE (IF atStart THEN indent ELSE <<>>) \o <<t[1]>>
         \o Indented(Tail(t), indent, t[1] = "\n")

\* The index in text of the first byte of the line that byte k is on.
LineStart(text, k) ==
    CHOOSE s \in 1..k : /\ \A j \in s..(k - 1) : text[j] # "\n"
                        /\ (s = 1 \/ text[s - 1] = "\n")

\* Every line of text that goes beyond width begins, after the indent, with
\* the word that goes beyond it.
BrokenAt(text, indent, width) ==
    \A k \in 1..Len(text) :
        (text[k] \notin {" ", "\t", "\n"} /\ k - LineStart(text, k) + 1 > width) =>
            \A j \in (LineStart(text, k) + Len(indent))..(k - 1) : text[j] \notin {" ", "\t"}

\* C21: what a new Formatter writes is the text it was given, with Indent at
\* the start of each line and with some spaces or tabs turned into newlines;
\* with Width > 0 every line is broken at the last space or tab before the
\* word that goes beyond Width, a word longer than Width staying whole.
C21_IndentAndWrap ==
    [][(ret'.op = "Write" /\ ~ret'.panic) =>
          /\ \E t \in Breaks(ret'.tokens.e) :
                out'[1].msg = Indented(t, formatter.Indent, TRUE)
          /\ formatter.Width > 0 =>
                BrokenAt(out'[1].msg, formatter.Indent, formatter.Width)]_vars

(* ------------------------------ C22 ------------------------------------ *)
\* msg is an error that node c raised from its own flags or its own
\* positional arguments, as the root hands it back.
RaisedByOwn(cm, c, msg) ==
    \E b \in {cm[c].name \o <<": bad flags: ">>, cm[c].name \o <<": bad positional args: ">>} :
        /\ Len(msg) >= Len(Wraps(cm, c) \o b)
        /\ Take(msg, Len(Wraps(cm, c) \o b)) = Wraps(cm, c) \o b

\* C22: after a parse that returns an error raised at a node by its own flags
\* (an unknown flag, a help flag) or by its positional arguments (a wrong
\* number of them), Parsed() of that node is false.
C22_ParsedOnlyOnSuccess ==
    [][(ParseStep /\ Fresh /\ ~ret'.err.nil) =>
          \A c \in Nodes : RaisedByOwn(cmds, c, ret'.err.msg) => ~cmds'[c].parsed]_vars

(* ------------------------------ C23 ------------------------------------ *)
\* C23: after a successful parse whose selected leaf carries a positional
\* binding, its own or one it has from an ancestor, Set of the binding was
\* called once in that parse, and the binding holds the tokens the leaf was
\* left with after its flags.
C23_SetOnce ==
    [][(ParseStep /\ Fresh /\ Len(ret'.tokens.e) >= 1 /\ ret'.err.nil) =>
          LET d == Descend(cmds, Root, Tail(ret'.tokens.e)) IN
          cmds[d.c].args # 0 =>
             /\ argsData'[cmds[d.c].args].sets = 1
             /\ argsData'[cmds[d.c].args].value.e = Remainder(cmds, d.c, d.rest)]_vars

(* ------------------------------ C24 ------------------------------------ *)
\* The nodes above a sub-command whose parse handed the error msg up: msg
\* begins with the names of all ancestors of that sub-command.
AbortedAbove(cm, msg) ==
    {m \in DOMAIN cm :
        \E k \in DOMAIN cm \ {Root} :
            /\ m \in Ancestors(cm, k)
            /\ Len(msg) >= Len(Wraps(cm, k))
            /\ Take(msg, Len(Wraps(cm, k))) = Wraps(cm, k)}

\* C24: when the parse of a sub-command returns an error or a help request,
\* the nodes above it do not parse their flags and do not call Set: their
\* Parsed() state and the value of their positional binding are as before.
C24_AbortsTraversal ==
    [][(ParseStep /\ ~ret'.err.nil) =>
          \A m \in AbortedAbove(cmds, ret'.err.msg) :
             /\ cmds'[m].parsed = cmds[m].parsed
             /\ cmds[m].args # 0 =>
                   argsData'[cmds[m].args].value = argsData[cmds[m].args].value]_vars

(* ------------------------------ C25 ------------------------------------ *)
\* Some node lacks a flag name that its parent holds.
LacksParentFlag(cm) ==
    \E n \in DOMAIN cm \ {Root} :
        ~(DOMAIN cm[Parent(cm, n)].formal \subseteq DOMAIN cm[n].formal)

\* C25: when some node of the tree, on the branch the tokens select or not,
\* lacks a flag name that its parent holds, ParseArgs panics, and no flag
\* value, no Parsed() state and no positional value has changed.
C25_CheckedFirst ==
    [][(ret'.op = "ParseArgs" /\ LacksParentFlag(cmds)) =>
          /\ ret'.panic
          /\ flagValue' = flagValue
          /\ \A c \in Nodes : cmds'[c].parsed = cmds[c].parsed
          /\ \A b \in DOMAIN argsData : argsData'[b].value = argsData[b].value /\ argsData'[b].sets = 0
          /\ out' = <<>>]_vars

\* "cmd a -v x" panicked because sub-command "cmd b", which the tokens do not
\* select, lacks the flag -v of the root; "cmd a" holds -v and positional
\* arguments and had been parsed before.
C25_Witness ==
    /\ ret.op = "ParseArgs"
    /\ ret.panic
    /\ ret.tokens.e = <<S_cmd, S_a, S_dashV>>
    /\ DOMAIN cmds[Root].sub = {S_a, S_b}
    /\ DOMAIN cmds[Root].formal = {S_v}
    /\ DOMAIN cmds[cmds[Root].sub[S_a]].formal = {S_v}
    /\ DOMAIN cmds[cmds[Root].sub[S_b]].formal = {}
    /\ cmds[cmds[Root].sub[S_a]].parsed

(* ------------------------------ C26 ------------------------------------ *)
\* C26: every internal parse of a node on the selected path (the parse of the
\* node at depth k gets the tokens from the k-th on) that returns without an
\* error returns no tokens, so the node above it parses its flags and
\* collects its positional arguments over an empty list.
C26_NothingLeft ==
    [][(ret'.op = "ParseArgs" /\ Len(ret'.tokens.e) >= 1) =>
          \A c \in PathTo(cmds, Leaf(cmds, ret'.tokens)) :
             LET r == parse(St(cmds, NoSets(argsData), flagValue, <<>>), c,
                            SliceFrom(ret'.tokens, Cardinality(Ancestors(cmds, c))))
             IN  (~r.panic /\ r.err.nil) => r.args.e = <<>>]_vars

\* "cmd a x" was accepted: the leaf "cmd a" took x as its positional argument
\* and the root then parsed what the leaf handed back.
C26_Witness ==
    /\ ret.op = "ParseArgs"
    /\ ~ret.panic
    /\ ret.err.nil
    /\ ret.tokens.e = <<S_cmd, S_a, S_x>>
    /\ cmds[Root].parsed
    /\ \E c \in Nodes : cmds[c].args = c /\ c # Root /\ argsData[c].value.e = <<S_x>>

(* ------------------------------ C27 ------------------------------------ *)
\* C27: a value created with capacity 0 takes a list of integers of any
\* length in every call of Set, and a value created with capacity K > 0 takes
\* exactly the lists of K integers in every call of Set, whatever calls of
\* Set came before.
C27_RuleFixed ==
    [][ret'.op = "Set" =>
          (ret'.err.nil <=> (argsData[Root].made = 0
                             \/ Len(ret'.tokens.e) = argsData[Root].made))]_vars


(* ------------------------------ C28 ------------------------------------ *)
\* C28: also when the tree has been parsed before, after each successful
\* ParseArgs whose tokens select a leaf, Parsed() is true exactly for the nodes
\* on the path from the root to that leaf: a node selected only by an earlier
\* parse reports false.
C28_MostRecentPath ==
    [][(ParseStep /\ ret'.err.nil /\ SelectsLeaf(cmds, argsData, ret'.tokens)) =>
          \A c \in Nodes :
              cmds'[c].parsed <=> c \in PathTo(cmds, Leaf(cmds, ret'.tokens))]_vars


(* ------------------------------ C29 ------------------------------------ *)
\* The text Usage wrote between "Positional arguments:" and the blank line
\* that ends it.
RECURSIVE AfterChunk(_, _)
AfterChunk(msg, chunk) ==
    IF msg = <<>> THEN <<>>
    ELSE IF msg[1] = chunk THEN Tail(msg)
    ELSE AfterChunk(Tail(msg), chunk)

PositionalPart(msg) ==
    LET t == AfterChunk(msg, "Positional arguments:\n\n")
    IN  SubSeq(t, 1, Len(t) - 1)

\* C29: the usage of a leaf with positional details completes without a panic
\* and renders the positional details as a node without details of its own
\* renders them: the text a new detailsWriter makes of them, whatever the
\* node's details text is.
C29_DetailsIndependent ==
    [][(ret'.op = "Usage" /\ HasArgsDetails(cmds, argsData, Root)) =>
          /\ ~ret'.panic
          /\ PositionalPart(out'[1].msg)
               = FormatterWrite(detailsWriter, argsData[Root].details).b]_vars


(* ------------------------------ C30 ------------------------------------ *)
\* C30: no call of the completer panics, on any node. ArgsGet answers the
\* binding's configured predictor when it has one, else the value when it is
\* a predictor, else nothing, and nothing for a node without a binding;
\* FlagList answers no flags for a node with children; SubCmdGet answers
\* nothing for a name that is not a child.
C30_BridgeAnswers ==
    [][/\ ret'.op \in {"ArgsGet", "FlagList", "SubCmdGet"} => ~ret'.panic
       /\ (ret'.op = "ArgsGet" /\ cmds[ret'.node].args = 0) => ret'.result = <<>>
       /\ (ret'.op = "ArgsGet" /\ cmds[ret'.node].args # 0) =>
             LET a == argsData[cmds[ret'.node].args] IN
             ret'.result = IF a.predict.values # <<>>
                           THEN <<"c.args.predict", cmds[ret'.node].args>>
                           ELSE IF a.value.kind = "argsStrComp"
                           THEN <<"c.args.value", cmds[ret'.node].args>>
                           ELSE <<>>
       /\ (ret'.op = "FlagList" /\ HasSub(cmds, ret'.node)) => ret'.result = <<>>
       /\ (ret'.op = "SubCmdGet" /\ ret'.tokens.e[1] \notin DOMAIN cmds[ret'.node].sub) =>
             ret'.result = <<>>]_vars

====
